---- MODULE Spec2Model ----
(***************************************************************************)
(* Persistor: backup pipeline (Orchestrator, SQLWriter, data extractors,   *)
(* DDL generators), schema comparison (SchemaComparator, inspectors, fix   *)
(* generators) and EngineFactory as state machines.                        *)
(*                                                                         *)
(* SQL text is modelled as a sequence of statement records; the empty      *)
(* sequence is the empty string (falsy in the source).                     *)
(***************************************************************************)
EXTENDS Integers, Sequences, FiniteSets, TLC

VARIABLES
  engine,          \* config.dbType: "postgres" | "oracle"
  schema,          \* config.schema || 'public'
  pc,              \* position of the driving flow (Orchestrator.run / a caller)
  resume,          \* where the flow continues once the awaited write() resolves
  idx,             \* loop index of the current for..of over tablesMetadata
  tableNames,      \* result of inspector.listTables
  tablesMetadata,  \* Orchestrator.run: tablesMetadata
  thrown,          \* error rethrown to the caller of run(), "none" if none
  failedAt,        \* the step whose failure entered the catch block, "none" if none
  dbClosed,        \* number of db.close() calls completed
  writeStream,     \* SQLWriter.writeStream: "null" | "stream"
  streamState,     \* fs.WriteStream: "none" | "writable" | "ending" | "finished" | "destroyed"
  inflight,        \* chunks handed to stream.write, not yet flushed; full: write returned false
  out,             \* chunks flushed to the output file, in order
  wstate,          \* promise of the latest write(): "idle" | "pending" | "resolved" | "rejected"
  mcall,           \* SQLWriter method in progress: "none" | "open" | "close"
  mstep,           \* position inside that method
  mresult,         \* its promise: "none" | "ok" | "err"
  wstats,          \* counters of one SQLWriter (observers only); ends: end() calls on the current stream
  gState,          \* streamTableData generator: "none" | "acquiring" | "fetching" |
                   \*   "yielded" | "closing" | "completed"
  gOut,            \* what the pending next()/return() delivers: "none" | "batch" | "done" | "throw" | "returned"
  gExit,           \* why the generator left its loop: "none" | "exhausted" | "fetchError" | "return"
  gBatch,          \* the yielded batch: rows first..last of the table
  gTable,          \* index of the table being streamed
  chunkSize,       \* streamTableData's chunkSize
  nRows,           \* rows the SELECT of the current table returns
  pos,             \* rows the cursor has handed out so far
  rowsLen,         \* rows.length of the latest fetch
  fetches,         \* fetches issued for the current table
  batches,         \* batches delivered to the consumer for the current table
  cursor,          \* per table: "none" | "open" | "closing" | "closed"
  releases,        \* per table: completed releases of the server-side resource
  cpc,             \* generic consumer of one stream: its position
  seqCatalog,      \* pg_sequences rows of one table
  seqMeta,         \* TableMetadata captured from them
  seqSql,          \* text generateSequences returned for it
  spc,             \* position of the sequence round trip
  dbType,          \* SchemaComparator.dbType: selects the generator of the fixes
  sourceDb,        \* catalog behind the source inspector
  targetDb,        \* catalog behind the target inspector
  cmpPc,           \* SchemaComparator.compare: the query it awaits, or "new" | "resolved" | "rejected" | "off"
  cmpIdx,          \* index of the for..of over sourceTables
  sourceTables,    \* compare: sourceTables
  targetTables,    \* compare: targetTables
  sourceMeta,      \* compare: sourceMeta of the current table
  sourceObjects,   \* compareFunctions/compareTriggers: sourceFunctions / sourceTriggers
  diffs,           \* compare: diffs
  queries,         \* inspector calls issued so far, in order
  cmpResult,       \* what compare() resolved with: <<>> or one ComparisonResult
  cmpError,        \* the error compare() rejected with, "none" if none
  created,         \* objects constructed so far, in order
  facCall,         \* the latest EngineFactory call or Orchestrator construction; n: calls so far
  facError,        \* the error that call threw, "none" if none
  connection,      \* OracleConnection.connection: the session it holds, NoSession if null
  sessions,        \* sessions oracledb has opened, in order: "open" | "closed"
  calls,           \* calls on the OracleConnection, in order of their start
  pool,            \* DbConnection.pool: ending, and the end() calls made on it
  poolCalls,       \* calls on the DbConnection, in order
  catalog,         \* rows of the tables catalog, in the order the server returns them
  tableFilter,     \* listTables: targetTables, <<>> if none was given
  listed,          \* what listTables resolved with: <<>> or one list of names
  conRows,         \* rows the constraint query returned
  conResult,       \* what getConstraints resolved with: <<>> or one list
  mdArgs,          \* getTableMetadata: its arguments schema and tableName
  mdQueries,       \* getTableMetadata: state and rows of each catalog query it issued
  mdPromise,       \* getTableMetadata's promise: "none" | "pending" | "resolved" | "rejected"
  mdResult,        \* the TableMetadata it resolved with: <<>> or one record
  fmtVal,          \* formatValue: val
  fmtType,         \* formatValue: type
  fmtOut,          \* text formatValue returned: <<>> before the call
  exMeta,          \* TableMetadata given to generateTableCreate and formatInsert
  exRow,           \* the row given to formatInsert
  createSql,       \* text generateTableCreate returned for exMeta
  insertSql        \* text formatInsert returned for exMeta and exRow

orchVars   == <<engine, schema, pc, resume, idx, tableNames, tablesMetadata, thrown,
               failedAt, dbClosed>>
writerVars == <<writeStream, streamState, inflight, out, wstate, mcall, mstep, mresult, wstats>>
genVars    == <<gState, gOut, gExit, gBatch, gTable, chunkSize, nRows, pos, rowsLen, fetches,
                batches, cursor, releases>>
seqVars    == <<seqCatalog, seqMeta, seqSql, spc>>
cmpVars    == <<dbType, sourceDb, targetDb, cmpPc, cmpIdx, sourceTables, targetTables, sourceMeta,
               sourceObjects, diffs, queries, cmpResult, cmpError>>
facVars    == <<created, facCall, facError>>
connVars   == <<connection, sessions, calls, pool, poolCalls>>
inspVars   == <<catalog, tableFilter, listed, conRows, conResult, mdArgs, mdQueries, mdPromise,
               mdResult>>
extVars    == <<fmtVal, fmtType, fmtOut, exMeta, exRow, createSql, insertSql>>
vars       == <<orchVars, writerVars, genVars, cpc, seqVars, cmpVars, facVars, connVars, inspVars,
               extVars>>

----------------------------------------------------------------------------
(* Bounds *)
MaxTables == 2
MaxPages  == 2
MaxRows   == 5
MaxChunk  == 3
MaxCalls  == 5
MaxSeqs   == 2
MaxCmpTables == 2
MaxFactoryCalls == 3

(* streamTableData(meta, chunkSize = 1000) *)
DefaultChunkSize == 1000

(* null of the catalog / of JavaScript; numbers of pg_sequences are bigint, *)
(* which the driver hands over as decimal strings                          *)
Null == "<null>"
(* JavaScript truthiness of a string-or-null value *)
Truthy(v) == v # Null /\ v # ""

Min(a, b) == IF a <= b THEN a ELSE b

TableIds == 1..(MaxTables + 1)

----------------------------------------------------------------------------
(* DDL generators: pure functions of a TableMetadata                       *)

(* SELECT setval('"schema"."name"', value, true) *)
SetvalValue_UsesStart(seq) == seq.startValue
SetvalValue(seq) == seq.lastValue

SequenceStatements(meta, seq) ==
  <<[kind |-> "CREATE SEQUENCE", table |-> meta.name, name |-> seq.name,
     value |-> seq.startValue, incrementBy |-> seq.incrementBy]>>
  \o (IF Truthy(seq.lastValue)
      THEN <<[kind |-> "SETVAL", table |-> meta.name, name |-> seq.name,
              value |-> SetvalValue(seq), incrementBy |-> seq.incrementBy]>>
      ELSE <<>>)

RECURSIVE ConcatMap(_, _, _)
(* sql += f(meta, s[k]) for k = from..Len(s) *)
ConcatMap(meta, s, k) ==
  IF k > Len(s) THEN <<>> ELSE SequenceStatements(meta, s[k]) \o ConcatMap(meta, s, k + 1)

PostgresGenerateSequences(meta) == ConcatMap(meta, meta.sequences, 1)

OracleGenerateSequences(meta) ==
  <<[kind |-> "COMMENT", table |-> meta.name, name |-> "sequences"]>>

GenerateSequences(e, meta) ==
  IF e = "postgres" THEN PostgresGenerateSequences(meta) ELSE OracleGenerateSequences(meta)

(* null of a numeric catalog column; a number n is <<n>> *)
NoNumber == <<>>
(* JavaScript truthiness of a number-or-null value *)
TruthyNumber(v) == v # NoNumber /\ v # <<0>>

Column(name, dataType, udtName, isNullable, columnDefault, len, precision, scale) ==
  [name |-> name, dataType |-> dataType, udtName |-> udtName, isNullable |-> isNullable,
   columnDefault |-> columnDefault, characterMaximumLength |-> len,
   numericPrecision |-> precision, numericScale |-> scale]

IdInt == Column("id", "integer", "int4", FALSE, Null, NoNumber, <<32>>, <<0>>)
IdBig == Column("id", "bigint", "int8", FALSE, Null, NoNumber, <<64>>, <<0>>)
NameVarchar50 == Column("name", "character varying", "varchar", TRUE, Null, <<50>>, NoNumber, NoNumber)
NameVarchar100 == Column("name", "varchar", "varchar", TRUE, Null, <<100>>, NoNumber, NoNumber)
NameText == Column("name", "text", "text", FALSE, "'x'", NoNumber, NoNumber, NoNumber)
NoteText == Column("note", "text", "text", TRUE, Null, NoNumber, NoNumber, NoNumber)
ExtraNumeric == Column("extra", "numeric", "numeric", TRUE, "0", NoNumber, <<10>>, <<2>>)

(* String.prototype.toUpperCase on the data types of the catalogs *)
ToUpperCase(s) ==
  CASE s = "integer" -> "INTEGER"
    [] s = "bigint" -> "BIGINT"
    [] s = "character varying" -> "CHARACTER VARYING"
    [] s = "varchar" -> "VARCHAR"
    [] s = "text" -> "TEXT"
    [] s = "numeric" -> "NUMERIC"

(* dataType.includes(part) *)
Includes(s, part) ==
  part \in (CASE s = "INTEGER" -> {"INT"}
             [] s = "BIGINT" -> {"INT"}
             [] s = "CHARACTER VARYING" -> {}
             [] s = "VARCHAR" -> {"VARCHAR"}
             [] s = "TEXT" -> {"TEXT"}
             [] s = "NUMERIC" -> {"NUMERIC"})

(* typeStr of generateAddColumn / generateAlterColumnType *)
PostgresTypeStr(col) ==
  [name |-> ToUpperCase(col.dataType),
   args |-> IF TruthyNumber(col.characterMaximumLength) THEN col.characterMaximumLength
            ELSE IF col.numericPrecision # NoNumber /\ col.numericScale # NoNumber
                 THEN col.numericPrecision \o col.numericScale
                 ELSE <<>>]

(* the type mapping of OracleDDLGenerator.formatColumn *)
OracleDataType(col) ==
  LET dataType == ToUpperCase(col.dataType) IN
  IF Includes(dataType, "VARCHAR") \/ Includes(dataType, "TEXT") THEN "VARCHAR2"
  ELSE IF Includes(dataType, "INT") \/ Includes(dataType, "NUMERIC") \/ Includes(dataType, "DECIMAL")
       THEN "NUMBER"
  ELSE IF Includes(dataType, "TIMESTAMP") THEN "TIMESTAMP"
  ELSE IF Includes(dataType, "BOOLEAN") THEN "NUMBER(1)"
  ELSE dataType

OracleTypeStr(col) ==
  [name |-> OracleDataType(col),
   args |-> IF TruthyNumber(col.characterMaximumLength) /\ OracleDataType(col) = "VARCHAR2"
            THEN col.characterMaximumLength
            ELSE IF /\ col.numericPrecision # NoNumber /\ col.numericScale # NoNumber
                    /\ OracleDataType(col) = "NUMBER"
                 THEN col.numericPrecision \o col.numericScale
                 ELSE <<>>]

TypeStr(e, col) == IF e = "postgres" THEN PostgresTypeStr(col) ELSE OracleTypeStr(col)

(* formatColumn(col): "name" TYPE[(..)] [NOT NULL] [DEFAULT d]; Oracle leaves *)
(* the name unquoted                                                       *)
FormatColumn(e, col) ==
  [ident |-> IF e = "postgres" THEN <<"\"", col.name, "\"">> ELSE <<col.name>>,
   type |-> TypeStr(e, col),
   notNull |-> ~col.isNullable,
   default |-> IF Truthy(col.columnDefault) THEN col.columnDefault ELSE Null]

(* the table as the statements of the generators name it: "schema"."name", *)
(* Oracle: name                                                            *)
TableIdentifier(e, meta) ==
  IF e = "postgres" THEN <<"\"", meta.schema, "\"", ".", "\"", meta.name, "\"">> ELSE <<meta.name>>

(* constraints.filter(c => c.type === t), order kept *)
FilterType(cs, t) == SelectSeq(cs, LAMBDA c : c.type = t)

ConstraintStatements(meta, cs) ==
  [k \in 1..Len(cs) |->
     [kind |-> "ADD CONSTRAINT", table |-> meta.name, name |-> cs[k].name, type |-> cs[k].type]]

(* CREATE TABLE ... ; then one ALTER TABLE ... PRIMARY KEY per primary key *)
GenerateTableCreate(e, meta) ==
  <<[kind |-> "CREATE TABLE", table |-> meta.name, name |-> meta.name, type |-> "TABLE",
     ident |-> TableIdentifier(e, meta),
     columns |-> [k \in 1..Len(meta.columns) |-> FormatColumn(e, meta.columns[k])]]>>
  \o ConstraintStatements(meta, FilterType(meta.constraints, "PRIMARY KEY"))

(* foreign keys first, then uniques; '' when there is neither *)
GenerateConstraints_WithPrimaryKeys(e, meta) ==
  ConstraintStatements(meta, FilterType(meta.constraints, "PRIMARY KEY"))
  \o ConstraintStatements(meta, FilterType(meta.constraints, "FOREIGN KEY"))
  \o ConstraintStatements(meta, FilterType(meta.constraints, "UNIQUE"))
GenerateConstraints(e, meta) ==
  ConstraintStatements(meta, FilterType(meta.constraints, "FOREIGN KEY"))
  \o ConstraintStatements(meta, FilterType(meta.constraints, "UNIQUE"))

(* one statement per captured index (commented out for Oracle) *)
GenerateIndexes(e, meta) ==
  [k \in 1..Len(meta.indexes) |->
     [kind |-> IF e = "postgres" THEN "CREATE INDEX" ELSE "COMMENT",
      table |-> meta.name, name |-> meta.indexes[k].name]]

GenerateDatabaseCreate(e) ==
  IF e = "postgres"
  THEN <<[kind |-> "COMMENT", name |-> "Database Creation"], [kind |-> "CREATE DATABASE", name |-> "database"]>>
  ELSE <<[kind |-> "COMMENT", name |-> "Oracle Database Creation"]>>

GenerateSchemaCreate(e, s) ==
  IF e = "postgres"
  THEN (IF s = "public" THEN <<>> ELSE <<[kind |-> "CREATE SCHEMA", name |-> s]>>)
  ELSE <<[kind |-> "COMMENT", name |-> "Oracle User/Schema Creation"]>>

----------------------------------------------------------------------------
(* SQLWriter over an fs.WriteStream                                        *)

Chunk(phase, table, text) == [phase |-> phase, table |-> table, text |-> text]

(* open(): three header comment lines, then the constraint-bypass directive *)
OpenWrites ==
  << Chunk("header", 0, <<[kind |-> "COMMENT", name |-> "PERSISTOR PostgreSQL Backup"]>>),
     Chunk("header", 0, <<[kind |-> "COMMENT", name |-> "Date"]>>),
     Chunk("header", 0, <<[kind |-> "COMMENT", name |-> "rule"]>>),
     Chunk("bypass", 0, <<[kind |-> "SET", name |-> "session_replication_role = replica"]>>) >>

(* close(): the restore directive, then the footer comment *)
CloseWrites_FooterFirst ==
  << Chunk("footer", 0, <<[kind |-> "COMMENT", name |-> "Backup Completed."]>>),
     Chunk("restore", 0, <<[kind |-> "SET", name |-> "session_replication_role = DEFAULT"]>>) >>
CloseWrites ==
  << Chunk("restore", 0, <<[kind |-> "SET", name |-> "session_replication_role = DEFAULT"]>>),
     Chunk("footer", 0, <<[kind |-> "COMMENT", name |-> "Backup Completed."]>>) >>

MethodWrites(m) == IF m = "open" THEN OpenWrites ELSE CloseWrites

(* write(): the promise is settled by the write callback, or by 'drain'    *)
(* when stream.write returned false; never at the call itself              *)
ResolvedAtCall_WhenAccepted(success) == success
ResolvedAtCall(success) == FALSE

Bump(n) == IF n < MaxCalls + 1 THEN n + 1 ELSE n

(* SQLWriter.write(content) *)
WriterWrite(content) ==
  IF writeStream = "null"
  THEN /\ wstate' = "rejected"
       /\ UNCHANGED <<streamState, inflight, wstats>>
  ELSE IF streamState # "writable"
  THEN /\ wstate' = "rejected"
       /\ wstats' = [wstats EXCEPT !.writesAfterEnd = Bump(@)]
       /\ UNCHANGED <<streamState, inflight>>
  ELSE \E success \in BOOLEAN :
         /\ inflight' = Append(inflight, [chunk |-> content, full |-> ~success])
         /\ wstate' = IF ResolvedAtCall(success) THEN "resolved" ELSE "pending"
         /\ UNCHANGED <<streamState, wstats>>

(* the stream has written its oldest chunk to the file: callback / 'drain' *)
StreamFlush ==
  /\ inflight # <<>>
  /\ streamState \in {"writable", "ending"}
  /\ out' = Append(out, Head(inflight).chunk)
  /\ inflight' = Tail(inflight)
  /\ wstate' = IF wstate = "pending" /\ Len(inflight) = 1 THEN "resolved" ELSE wstate
  /\ UNCHANGED <<writeStream, streamState, mcall, mstep, mresult, wstats>>
  /\ UNCHANGED <<orchVars, genVars, cpc, seqVars, cmpVars, facVars, connVars, inspVars, extVars>>

(* the file write failed: the stream is destroyed, the callback gets the error *)
StreamError ==
  /\ inflight # <<>>
  /\ streamState \in {"writable", "ending"}
  /\ streamState' = "destroyed"
  /\ inflight' = <<>>
  /\ wstate' = IF wstate = "pending" THEN "rejected" ELSE wstate
  /\ UNCHANGED <<writeStream, out, mcall, mstep, mresult, wstats>>
  /\ UNCHANGED <<orchVars, genVars, cpc, seqVars, cmpVars, facVars, connVars, inspVars, extVars>>

(* SQLWriter.open() up to its first await *)
WriterOpenBegin ==
  /\ writeStream' = "stream"
  /\ streamState' = "writable"
  /\ inflight' = <<>>
  /\ out' = <<>>
  /\ mcall' = "open"
  /\ mstep' = 1
  /\ mresult' = "none"
  /\ wstats' = [wstats EXCEPT !.opens = Bump(@), !.ends = 0]
  /\ UNCHANGED wstate

(* SQLWriter.close() up to its first await *)
WriterCloseBegin ==
  /\ wstats' = [wstats EXCEPT !.closes = Bump(@)]
  /\ IF writeStream # "null"
     THEN /\ mcall' = "close"
          /\ mstep' = 1
          /\ mresult' = "none"
     ELSE /\ mresult' = "ok"
          /\ UNCHANGED <<mcall, mstep>>
  /\ UNCHANGED <<writeStream, streamState, inflight, out, wstate>>

(* open()/close(): await this.write(next line) *)
WriterMethodWrite ==
  /\ mcall \in {"open", "close"}
  /\ wstate = "idle"
  /\ mstep <= Len(MethodWrites(mcall))
  /\ WriterWrite(MethodWrites(mcall)[mstep])
  /\ UNCHANGED <<writeStream, out, mcall, mstep, mresult>>
  /\ UNCHANGED <<orchVars, genVars, cpc, seqVars, cmpVars, facVars, connVars, inspVars, extVars>>

(* open()/close(): the awaited write resolved *)
WriterMethodResume ==
  /\ mcall \in {"open", "close"}
  /\ wstate = "resolved"
  /\ wstate' = "idle"
  /\ IF mcall = "open" /\ mstep = Len(OpenWrites)
     THEN mcall' = "none" /\ mstep' = 0 /\ mresult' = "ok"
     ELSE mstep' = mstep + 1 /\ UNCHANGED <<mcall, mresult>>
  /\ UNCHANGED <<writeStream, streamState, inflight, out, wstats>>
  /\ UNCHANGED <<orchVars, genVars, cpc, seqVars, cmpVars, facVars, connVars, inspVars, extVars>>

(* open()/close(): the awaited write rejected, the method rejects *)
WriterMethodRejected ==
  /\ mcall \in {"open", "close"}
  /\ wstate = "rejected"
  /\ wstate' = "idle"
  /\ mcall' = "none"
  /\ mstep' = 0
  /\ mresult' = "err"
  /\ wstats' = IF mcall = "close" THEN [wstats EXCEPT !.closeErrs = Bump(@)] ELSE wstats
  /\ UNCHANGED <<writeStream, streamState, inflight, out>>
  /\ UNCHANGED <<orchVars, genVars, cpc, seqVars, cmpVars, facVars, connVars, inspVars, extVars>>

(* close(): this.writeStream.end(cb) *)
WriterCloseEnd ==
  /\ mcall = "close"
  /\ wstate = "idle"
  /\ mstep = Len(CloseWrites) + 1
  /\ streamState' = IF streamState = "writable" THEN "ending" ELSE streamState
  /\ wstats' = [wstats EXCEPT !.ends = Bump(@)]
  /\ mstep' = mstep + 1
  /\ UNCHANGED <<writeStream, inflight, out, wstate, mcall, mresult>>
  /\ UNCHANGED <<orchVars, genVars, cpc, seqVars, cmpVars, facVars, connVars, inspVars, extVars>>

(* the end callback: everything is flushed and the file is closed *)
StreamFinish ==
  /\ mcall = "close"
  /\ mstep = Len(CloseWrites) + 2
  /\ inflight = <<>>
  /\ streamState' = IF streamState = "ending" THEN "finished" ELSE streamState
  /\ mcall' = "none"
  /\ mstep' = 0
  /\ mresult' = "ok"
  /\ UNCHANGED <<writeStream, inflight, out, wstate, wstats>>
  /\ UNCHANGED <<orchVars, genVars, cpc, seqVars, cmpVars, facVars, connVars, inspVars, extVars>>

----------------------------------------------------------------------------
(* streamTableData: the async generator of PostgresExtractor and           *)
(* OracleExtractor. The code between two awaits/yields runs atomically.    *)

(* if (rows.length > 0) yield insertStatements *)
YieldsBatch_Always(n) == TRUE
YieldsBatch(n) == n > 0

(* do { ... } while (rows.length > 0) *)
LoopContinues(n) == n > 0

(* try { ... } finally { release }: the finally block runs on every exit *)
RunsFinally_NotOnReturn(exit) == exit # "return"
RunsFinally(exit) == TRUE

(* Postgres: cursor.close(() => client.release()) is started, not awaited. *)
(* Oracle: await resultSet.close().                                        *)
AwaitsClose(e) == e = "oracle"

Outcome(exit) ==
  CASE exit = "exhausted" -> "done"
    [] exit = "return"    -> "returned"
    [] OTHER              -> "throw"

(* the generator leaves its try block *)
GenLeave(exit) ==
  /\ gExit' = exit
  /\ IF ~RunsFinally(exit)
     THEN gState' = "completed" /\ gOut' = Outcome(exit) /\ UNCHANGED cursor
     ELSE IF AwaitsClose(engine)
     THEN gState' = "closing" /\ gOut' = "none" /\ UNCHANGED cursor
     ELSE /\ gState' = "completed"
          /\ gOut' = Outcome(exit)
          /\ cursor' = [cursor EXCEPT ![gTable] = "closing"]

(* the consumer's first next(): the body starts and awaits its connection *)
GenStart(t, n, c) ==
  /\ gState' = "acquiring"
  /\ gTable' = t
  /\ nRows' = n
  /\ chunkSize' = c
  /\ pos' = 0
  /\ rowsLen' = 0
  /\ fetches' = 0
  /\ batches' = <<>>
  /\ gOut' = "none"
  /\ gExit' = "none"
  /\ gBatch' = [first |-> 0, last |-> 0]
  /\ UNCHANGED <<cursor, releases>>

(* next() while suspended at the yield: the loop condition, then a fetch *)
GenNext ==
  /\ IF LoopContinues(rowsLen)
     THEN /\ gState' = "fetching"
          /\ gOut' = "none"
          /\ fetches' = fetches + 1
          /\ UNCHANGED <<gExit, cursor>>
     ELSE GenLeave("exhausted") /\ UNCHANGED fetches
  /\ UNCHANGED <<gBatch, gTable, chunkSize, nRows, pos, rowsLen, batches, releases>>

(* return() while suspended at the yield (the consumer broke off or threw) *)
GenReturn ==
  /\ GenLeave("return")
  /\ UNCHANGED <<gBatch, gTable, chunkSize, nRows, pos, rowsLen, fetches, batches, releases>>

(* getClient() + client.query(new Cursor(..)) / getConnection() + execute() *)
GenAcquire ==
  /\ gState = "acquiring"
  /\ \/ /\ gState' = "completed"
        /\ gOut' = "throw"
        /\ gExit' = "acquireError"
        /\ UNCHANGED <<cursor, fetches>>
     \/ /\ cursor' = [cursor EXCEPT ![gTable] = "open"]
        /\ gState' = "fetching"
        /\ fetches' = 1
        /\ UNCHANGED <<gOut, gExit>>
  /\ UNCHANGED <<gBatch, gTable, chunkSize, nRows, pos, rowsLen, batches, releases>>
  /\ UNCHANGED <<orchVars, writerVars, cpc, seqVars, cmpVars, facVars, connVars, inspVars, extVars>>

(* cursor.read(chunkSize) / resultSet.getRows(chunkSize) came back *)
GenFetchDone ==
  /\ gState = "fetching"
  /\ \/ /\ GenLeave("fetchError")
        /\ UNCHANGED <<pos, rowsLen, gBatch, fetches>>
     \/ LET n == Min(chunkSize, nRows - pos) IN
        /\ rowsLen' = n
        /\ pos' = pos + n
        /\ IF YieldsBatch(n)
           THEN /\ gState' = "yielded"
                /\ gOut' = "batch"
                /\ gBatch' = [first |-> pos + 1, last |-> pos + n]
                /\ UNCHANGED <<gExit, cursor, fetches>>
           ELSE IF LoopContinues(n)
           THEN /\ fetches' = fetches + 1
                /\ UNCHANGED <<gState, gOut, gExit, gBatch, cursor>>
           ELSE GenLeave("exhausted") /\ UNCHANGED <<gBatch, fetches>>
  /\ UNCHANGED <<gTable, chunkSize, nRows, batches, releases>>
  /\ UNCHANGED <<orchVars, writerVars, cpc, seqVars, cmpVars, facVars, connVars, inspVars, extVars>>

(* Oracle: the awaited resultSet.close() completed; the generator ends *)
GenCloseDone ==
  /\ gState = "closing"
  /\ cursor' = [cursor EXCEPT ![gTable] = "closed"]
  /\ releases' = [releases EXCEPT ![gTable] = @ + 1]
  /\ gState' = "completed"
  /\ gOut' = Outcome(gExit)
  /\ UNCHANGED <<gExit, gBatch, gTable, chunkSize, nRows, pos, rowsLen, fetches, batches>>
  /\ UNCHANGED <<orchVars, writerVars, cpc, seqVars, cmpVars, facVars, connVars, inspVars, extVars>>

(* Postgres: the callback of cursor.close runs: client.release() *)
CursorCloseCallback ==
  /\ \E t \in TableIds :
       /\ cursor[t] = "closing"
       /\ cursor' = [cursor EXCEPT ![t] = "closed"]
       /\ releases' = [releases EXCEPT ![t] = @ + 1]
  /\ UNCHANGED <<gState, gOut, gExit, gBatch, gTable, chunkSize, nRows, pos, rowsLen,
                 fetches, batches>>
  /\ UNCHANGED <<orchVars, writerVars, cpc, seqVars, cmpVars, facVars, connVars, inspVars, extVars>>

----------------------------------------------------------------------------
(* Catalog contents the inspector can return                               *)

SeqRow(name, start, last) ==
  [name |-> name, startValue |-> start, incrementBy |-> "1", cacheSize |-> "1", lastValue |-> last]

PlainTable(name) ==
  [name |-> name, schema |-> "public", columns |-> <<IdInt>>, constraints |-> <<>>,
   indexes |-> <<>>, sequences |-> <<>>]

FullTable(e, name) ==
  [name |-> name, schema |-> "public", columns |-> <<IdInt, NameVarchar50>>,
   constraints |-> << [name |-> "pk", type |-> "PRIMARY KEY"], [name |-> "fk", type |-> "FOREIGN KEY"],
                      [name |-> "uq", type |-> "UNIQUE"], [name |-> "ck", type |-> "CHECK"] >>,
   indexes |-> << [name |-> "ix"] >>,
   sequences |-> IF e = "postgres" THEN << SeqRow("s1", "1", "57") >> ELSE <<>>]

(* getTableMetadata(schema, name): Oracle always returns sequences: [] *)
Metas(e, s, name) ==
  {[PlainTable(name) EXCEPT !.schema = s], [FullTable(e, name) EXCEPT !.schema = s]}

(* rows a table may hold when its SELECT runs: none, full pages only, and *)
(* full pages followed by a short one                                    *)
RowCounts ==
  {0, (MaxPages - 1) * DefaultChunkSize, (MaxPages - 1) * DefaultChunkSize + DefaultChunkSize \div 2}

----------------------------------------------------------------------------
(* Orchestrator.run                                                        *)

(* catch (error) { logger.error(..); throw error; } *)
Catch_Swallows(err) == [pc |-> "done", thrown |-> "none"]
Catch_Closes(err) == [pc |-> "close", thrown |-> err]
Catch(err) == [pc |-> "failed", thrown |-> err]

Fail(step, err) ==
  /\ failedAt' = step
  /\ pc' = Catch(err).pc
  /\ thrown' = Catch(err).thrown

(* the order of the loops of run() *)
PhaseAfter_IndexBeforeData(p) ==
  CASE p = "inspect" -> "seq"
    [] p = "seq" -> "table"
    [] p = "table" -> "index"
    [] p = "index" -> "data"
    [] p = "data" -> "constraint"
    [] OTHER -> "close"
PhaseAfter(p) ==
  CASE p = "inspect" -> "seq"
    [] p = "seq" -> "table"
    [] p = "table" -> "data"
    [] p = "data" -> "index"
    [] p = "index" -> "constraint"
    [] OTHER -> "close"

LoopPhases == {"inspect", "seq", "table", "data", "index", "constraint"}

(* await this.writer.write(text), continuing at `next` with index `i` *)
AwaitWrite(chunk, next, i) ==
  /\ wstate = "idle"
  /\ WriterWrite(chunk)
  /\ pc' = "await"
  /\ resume' = [pc |-> next, idx |-> i]
  /\ UNCHANGED <<writeStream, out, mcall, mstep, mresult>>

(* await this.writer.open() *)
RunStart ==
  /\ pc = "start"
  /\ WriterOpenBegin
  /\ pc' = "open_wait"
  /\ UNCHANGED <<engine, schema, resume, idx, tableNames, tablesMetadata, thrown, failedAt, dbClosed>>
  /\ UNCHANGED <<genVars, cpc, seqVars, cmpVars, facVars, connVars, inspVars, extVars>>

RunOpened ==
  /\ pc = "open_wait"
  /\ mresult = "ok"
  /\ mresult' = "none"
  /\ pc' = "db"
  /\ UNCHANGED <<engine, schema, resume, idx, tableNames, tablesMetadata, thrown, failedAt, dbClosed>>
  /\ UNCHANGED <<writeStream, streamState, inflight, out, wstate, mcall, mstep, wstats>>
  /\ UNCHANGED <<genVars, cpc, seqVars, cmpVars, facVars, connVars, inspVars, extVars>>

(* the awaited open()/close() rejected *)
RunMethodFailed ==
  /\ pc \in {"open_wait", "close_wait"}
  /\ mresult = "err"
  /\ mresult' = "none"
  /\ Fail(pc, "write")
  /\ UNCHANGED <<engine, schema, resume, idx, tableNames, tablesMetadata, dbClosed>>
  /\ UNCHANGED <<writeStream, streamState, inflight, out, wstate, mcall, mstep, wstats>>
  /\ UNCHANGED <<genVars, cpc, seqVars, cmpVars, facVars, connVars, inspVars, extVars>>

WriteDatabaseCreate ==
  /\ pc = "db"
  /\ AwaitWrite(Chunk("db", 0, GenerateDatabaseCreate(engine)), "schema", idx)
  /\ UNCHANGED <<engine, schema, idx, tableNames, tablesMetadata, thrown, failedAt, dbClosed>>
  /\ UNCHANGED <<genVars, cpc, seqVars, cmpVars, facVars, connVars, inspVars, extVars>>

WriteSchemaCreate ==
  /\ pc = "schema"
  /\ AwaitWrite(Chunk("schema", 0, GenerateSchemaCreate(engine, schema)), "list", idx)
  /\ UNCHANGED <<engine, schema, idx, tableNames, tablesMetadata, thrown, failedAt, dbClosed>>
  /\ UNCHANGED <<genVars, cpc, seqVars, cmpVars, facVars, connVars, inspVars, extVars>>

(* the awaited write resolved: run() continues *)
AwaitWriteResolved ==
  /\ pc = "await"
  /\ mcall = "none"
  /\ wstate = "resolved"
  /\ wstate' = "idle"
  /\ pc' = resume.pc
  /\ idx' = resume.idx
  /\ UNCHANGED <<engine, schema, resume, tableNames, tablesMetadata, thrown, failedAt, dbClosed>>
  /\ UNCHANGED <<writeStream, streamState, inflight, out, mcall, mstep, mresult, wstats>>
  /\ UNCHANGED <<genVars, cpc, seqVars, cmpVars, facVars, connVars, inspVars, extVars>>

(* the awaited write rejected: outside the data loop the catch block runs; *)
(* inside for await the iterator's return() runs first                     *)
AwaitWriteRejected ==
  /\ pc = "await"
  /\ mcall = "none"
  /\ wstate = "rejected"
  /\ wstate' = "idle"
  /\ IF gState = "yielded"
     THEN /\ GenReturn
          /\ pc' = "data_return"
          /\ failedAt' = "write"
          /\ UNCHANGED thrown
     ELSE /\ Fail("write", "write")
          /\ UNCHANGED genVars
  /\ UNCHANGED <<engine, schema, resume, idx, tableNames, tablesMetadata, dbClosed>>
  /\ UNCHANGED <<writeStream, streamState, inflight, out, mcall, mstep, mresult, wstats>>
  /\ UNCHANGED <<cpc, seqVars, cmpVars, facVars, connVars, inspVars, extVars>>

cmpInputs == <<dbType, sourceDb, targetDb>>

(* an inspector call: the inspector it is made on, the method, its table *)
Query(side, query, table) == [side |-> side, query |-> query, table |-> table]

(* inspector.listTables(schema, config.tables) *)
ListTables ==
  /\ pc = "list"
  /\ queries' = Append(queries, Query("backup", "listTables", 0))
  /\ \/ Fail("listTables", "query") /\ UNCHANGED <<tableNames, idx>>
     \/ \E n \in 0..MaxTables :
          /\ tableNames' = [k \in 1..n |-> k]
          /\ pc' = "inspect"
          /\ idx' = 1
          /\ UNCHANGED <<thrown, failedAt>>
  /\ UNCHANGED <<engine, schema, resume, tablesMetadata, dbClosed>>
  /\ UNCHANGED <<cmpInputs, cmpPc, cmpIdx, sourceTables, targetTables, sourceMeta, sourceObjects, diffs,
                 cmpResult, cmpError>>
  /\ UNCHANGED <<writerVars, genVars, cpc, seqVars, facVars, connVars, inspVars, extVars>>

(* for (const name of tableNames) tablesMetadata.push(await getTableMetadata(..)) *)
InspectTable_Unshift ==
  /\ pc = "inspect"
  /\ idx <= Len(tableNames)
  /\ queries' = Append(queries, Query("backup", "getTableMetadata", tableNames[idx]))
  /\ \/ Fail("getTableMetadata", "query") /\ UNCHANGED <<tablesMetadata, idx>>
     \/ \E m \in Metas(engine, schema, tableNames[idx]) :
          /\ tablesMetadata' = <<m>> \o tablesMetadata
          /\ idx' = idx + 1
          /\ UNCHANGED <<pc, thrown, failedAt>>
  /\ UNCHANGED <<engine, schema, resume, tableNames, dbClosed>>
  /\ UNCHANGED <<cmpInputs, cmpPc, cmpIdx, sourceTables, targetTables, sourceMeta, sourceObjects, diffs,
                 cmpResult, cmpError>>
  /\ UNCHANGED <<writerVars, genVars, cpc, seqVars, facVars, connVars, inspVars, extVars>>
InspectTable ==
  /\ pc = "inspect"
  /\ idx <= Len(tableNames)
  /\ queries' = Append(queries, Query("backup", "getTableMetadata", tableNames[idx]))
  /\ \/ Fail("getTableMetadata", "query") /\ UNCHANGED <<tablesMetadata, idx>>
     \/ \E m \in Metas(engine, schema, tableNames[idx]) :
          /\ tablesMetadata' = Append(tablesMetadata, m)
          /\ idx' = idx + 1
          /\ UNCHANGED <<pc, thrown, failedAt>>
  /\ UNCHANGED <<engine, schema, resume, tableNames, dbClosed>>
  /\ UNCHANGED <<cmpInputs, cmpPc, cmpIdx, sourceTables, targetTables, sourceMeta, sourceObjects, diffs,
                 cmpResult, cmpError>>
  /\ UNCHANGED <<writerVars, genVars, cpc, seqVars, facVars, connVars, inspVars, extVars>>

(* a for..of loop is exhausted: the next loop starts *)
NextPhase ==
  /\ pc \in LoopPhases
  /\ idx > Len(IF pc = "inspect" THEN tableNames ELSE tablesMetadata)
  /\ pc' = PhaseAfter(pc)
  /\ idx' = 1
  /\ UNCHANGED <<engine, schema, resume, tableNames, tablesMetadata, thrown, failedAt, dbClosed>>
  /\ UNCHANGED <<writerVars, genVars, cpc, seqVars, cmpVars, facVars, connVars, inspVars, extVars>>

(* const sql = generate(meta); if (sql) await this.writer.write(sql) *)
WriteIfText(phase, text) ==
  IF text # <<>>
  THEN /\ AwaitWrite(Chunk(phase, idx, text), phase, idx + 1)
       /\ UNCHANGED idx
  ELSE /\ idx' = idx + 1
       /\ UNCHANGED <<pc, resume, writerVars>>

WriteSequences ==
  /\ pc = "seq"
  /\ idx <= Len(tablesMetadata)
  /\ WriteIfText("seq", GenerateSequences(engine, tablesMetadata[idx]))
  /\ UNCHANGED <<engine, schema, tableNames, tablesMetadata, thrown, failedAt, dbClosed>>
  /\ UNCHANGED <<genVars, cpc, seqVars, cmpVars, facVars, connVars, inspVars, extVars>>

(* await this.writer.write(generateTableCreate(meta)) *)
WriteTableCreate ==
  /\ pc = "table"
  /\ idx <= Len(tablesMetadata)
  /\ AwaitWrite(Chunk("table", idx, GenerateTableCreate(engine, tablesMetadata[idx])), "table", idx + 1)
  /\ UNCHANGED <<engine, schema, idx, tableNames, tablesMetadata, thrown, failedAt, dbClosed>>
  /\ UNCHANGED <<genVars, cpc, seqVars, cmpVars, facVars, connVars, inspVars, extVars>>

WriteIndexes ==
  /\ pc = "index"
  /\ idx <= Len(tablesMetadata)
  /\ WriteIfText("index", GenerateIndexes(engine, tablesMetadata[idx]))
  /\ UNCHANGED <<engine, schema, tableNames, tablesMetadata, thrown, failedAt, dbClosed>>
  /\ UNCHANGED <<genVars, cpc, seqVars, cmpVars, facVars, connVars, inspVars, extVars>>

WriteConstraints ==
  /\ pc = "constraint"
  /\ idx <= Len(tablesMetadata)
  /\ WriteIfText("constraint", GenerateConstraints(engine, tablesMetadata[idx]))
  /\ UNCHANGED <<engine, schema, tableNames, tablesMetadata, thrown, failedAt, dbClosed>>
  /\ UNCHANGED <<genVars, cpc, seqVars, cmpVars, facVars, connVars, inspVars, extVars>>

(* for await (const chunk of this.extractor.streamTableData(meta)): first next() *)
StreamStart ==
  /\ pc = "data"
  /\ idx <= Len(tablesMetadata)
  /\ \E n \in RowCounts : GenStart(idx, n, DefaultChunkSize)
  /\ pc' = "data_next"
  /\ UNCHANGED <<engine, schema, resume, idx, tableNames, tablesMetadata, thrown, failedAt, dbClosed>>
  /\ UNCHANGED <<writerVars, cpc, seqVars, cmpVars, facVars, connVars, inspVars, extVars>>

(* a batch arrived: await this.writer.write(chunk.join('\n') + '\n') *)
StreamBatch ==
  /\ pc = "data_next"
  /\ gOut = "batch"
  /\ gOut' = "none"
  /\ batches' = Append(batches, gBatch)
  /\ AwaitWrite(Chunk("data", idx, <<[kind |-> "INSERT", table |-> tablesMetadata[idx].name,
                                      first |-> gBatch.first, last |-> gBatch.last]>>),
                "data_resume", idx)
  /\ UNCHANGED <<engine, schema, idx, tableNames, tablesMetadata, thrown, failedAt, dbClosed>>
  /\ UNCHANGED <<gState, gExit, gBatch, gTable, chunkSize, nRows, pos, rowsLen, fetches, cursor, releases>>
  /\ UNCHANGED <<cpc, seqVars, cmpVars, facVars, connVars, inspVars, extVars>>

(* the loop body is done: the next next() *)
StreamResume ==
  /\ pc = "data_resume"
  /\ GenNext
  /\ pc' = "data_next"
  /\ UNCHANGED <<engine, schema, resume, idx, tableNames, tablesMetadata, thrown, failedAt, dbClosed>>
  /\ UNCHANGED <<writerVars, cpc, seqVars, cmpVars, facVars, connVars, inspVars, extVars>>

(* the iterator is done: await this.writer.write('\n') *)
StreamDone ==
  /\ pc = "data_next"
  /\ gOut = "done"
  /\ gOut' = "none"
  /\ gState' = "none"
  /\ AwaitWrite(Chunk("data", idx, <<[kind |-> "NEWLINE", table |-> tablesMetadata[idx].name,
                                      first |-> 0, last |-> 0]>>), "data", idx + 1)
  /\ UNCHANGED <<engine, schema, idx, tableNames, tablesMetadata, thrown, failedAt, dbClosed>>
  /\ UNCHANGED <<gExit, gBatch, gTable, chunkSize, nRows, pos, rowsLen, fetches, batches, cursor, releases>>
  /\ UNCHANGED <<cpc, seqVars, cmpVars, facVars, connVars, inspVars, extVars>>

(* next() rejected: a connection or fetch error reaches the catch block *)
StreamThrow ==
  /\ pc = "data_next"
  /\ gOut = "throw"
  /\ gOut' = "none"
  /\ Fail("fetch", "query")
  /\ UNCHANGED <<engine, schema, resume, idx, tableNames, tablesMetadata, dbClosed>>
  /\ UNCHANGED <<gState, gExit, gBatch, gTable, chunkSize, nRows, pos, rowsLen, fetches, batches, cursor, releases>>
  /\ UNCHANGED <<writerVars, cpc, seqVars, cmpVars, facVars, connVars, inspVars, extVars>>

(* return() settled: the error of the loop body reaches the catch block *)
StreamReturned ==
  /\ pc = "data_return"
  /\ gOut = "returned"
  /\ gOut' = "none"
  /\ Fail("write", "write")
  /\ UNCHANGED <<engine, schema, resume, idx, tableNames, tablesMetadata, dbClosed>>
  /\ UNCHANGED <<gState, gExit, gBatch, gTable, chunkSize, nRows, pos, rowsLen, fetches, batches, cursor, releases>>
  /\ UNCHANGED <<writerVars, cpc, seqVars, cmpVars, facVars, connVars, inspVars, extVars>>

(* await this.writer.close() *)
RunClose ==
  /\ pc = "close"
  /\ WriterCloseBegin
  /\ pc' = "close_wait"
  /\ UNCHANGED <<engine, schema, resume, idx, tableNames, tablesMetadata, thrown, failedAt, dbClosed>>
  /\ UNCHANGED <<genVars, cpc, seqVars, cmpVars, facVars, connVars, inspVars, extVars>>

RunClosed ==
  /\ pc = "close_wait"
  /\ mresult = "ok"
  /\ mresult' = "none"
  /\ pc' = "dbclose"
  /\ UNCHANGED <<engine, schema, resume, idx, tableNames, tablesMetadata, thrown, failedAt, dbClosed>>
  /\ UNCHANGED <<writeStream, streamState, inflight, out, wstate, mcall, mstep, wstats>>
  /\ UNCHANGED <<genVars, cpc, seqVars, cmpVars, facVars, connVars, inspVars, extVars>>

(* await this.db.close() *)
DbClose ==
  /\ pc = "dbclose"
  /\ \/ Fail("dbclose", "connection") /\ UNCHANGED dbClosed
     \/ /\ dbClosed' = dbClosed + 1
        /\ pc' = "done"
        /\ UNCHANGED <<thrown, failedAt>>
  /\ UNCHANGED <<engine, schema, resume, idx, tableNames, tablesMetadata>>
  /\ UNCHANGED <<writerVars, genVars, cpc, seqVars, cmpVars, facVars, connVars, inspVars, extVars>>

----------------------------------------------------------------------------
NoWriterStats ==
  [calls |-> 0, opens |-> 0, closes |-> 0, closeErrs |-> 0, ends |-> 0, writesAfterEnd |-> 0]

InitWriter ==
  /\ writeStream = "null"
  /\ streamState = "none"
  /\ inflight = <<>>
  /\ out = <<>>
  /\ wstate = "idle"
  /\ mcall = "none"
  /\ mstep = 0
  /\ mresult = "none"
  /\ wstats = NoWriterStats

InitGen ==
  /\ gState = "none"
  /\ gOut = "none"
  /\ gExit = "none"
  /\ gBatch = [first |-> 0, last |-> 0]
  /\ gTable = 1
  /\ chunkSize = DefaultChunkSize
  /\ nRows = 0
  /\ pos = 0
  /\ rowsLen = 0
  /\ fetches = 0
  /\ batches = <<>>
  /\ cursor = [t \in TableIds |-> "none"]
  /\ releases = [t \in TableIds |-> 0]

InitOrch ==
  /\ engine \in {"postgres", "oracle"}
  /\ schema \in (IF engine = "postgres" THEN {"public", "app"} ELSE {"USER"})
  /\ pc = "start"
  /\ resume = [pc |-> "start", idx |-> 1]
  /\ idx = 1
  /\ tableNames = <<>>
  /\ tablesMetadata = <<>>
  /\ thrown = "none"
  /\ failedAt = "none"
  /\ dbClosed = 0

InitSeq ==
  /\ seqCatalog = <<>>
  /\ seqMeta = PlainTable(1)
  /\ seqSql = <<>>
  /\ spc = "off"

(* no comparison in progress *)
InitCmp ==
  /\ dbType = "postgres"
  /\ sourceDb = [tables |-> <<>>, columns |-> <<>>, constraints |-> <<>>, indexes |-> <<>>,
                 functions |-> <<>>, triggers |-> <<>>]
  /\ targetDb = [tables |-> <<>>, columns |-> <<>>, constraints |-> <<>>, indexes |-> <<>>,
                 functions |-> <<>>, triggers |-> <<>>]
  /\ cmpPc = "off"
  /\ cmpIdx = 1
  /\ sourceTables = <<>>
  /\ targetTables = <<>>
  /\ sourceMeta = Null
  /\ sourceObjects = <<>>
  /\ diffs = <<>>
  /\ queries = <<>>
  /\ cmpResult = <<>>
  /\ cmpError = "none"

(* nothing constructed yet *)
InitFac ==
  /\ created = <<>>
  /\ facCall = [method |-> "none", type |-> "none", n |-> 0]
  /\ facError = "none"

NoSession == 0

(* new OracleConnection(config) and new DbConnection(config): no session, *)
(* a pool that was never ended                                            *)
InitConn ==
  /\ connection = NoSession
  /\ sessions = <<>>
  /\ calls = <<>>
  /\ pool = [ending |-> FALSE, ends |-> 0]
  /\ poolCalls = <<>>

(* no inspector call made *)
InitInsp ==
  /\ catalog = <<>>
  /\ tableFilter = <<>>
  /\ listed = <<>>
  /\ conRows = <<>>
  /\ conResult = <<>>
  /\ mdArgs = <<>>
  /\ mdQueries = <<>>
  /\ mdPromise = "none"
  /\ mdResult = <<>>

(* no extractor or generator call made *)
InitExt ==
  /\ fmtVal = <<>>
  /\ fmtType = <<>>
  /\ fmtOut = <<>>
  /\ exMeta = <<>>
  /\ exRow = <<>>
  /\ createSql = <<>>
  /\ insertSql = <<>>

(* one backup run: new Orchestrator(config).run() *)
Init ==
  /\ InitOrch /\ InitWriter /\ InitGen /\ InitSeq /\ InitCmp /\ InitFac /\ InitConn /\ InitInsp /\ InitExt
  /\ cpc = "off"

Next ==
  \/ RunStart \/ RunOpened \/ RunMethodFailed
  \/ WriteDatabaseCreate \/ WriteSchemaCreate
  \/ AwaitWriteResolved \/ AwaitWriteRejected
  \/ ListTables \/ InspectTable \/ NextPhase
  \/ WriteSequences \/ WriteTableCreate
  \/ StreamStart \/ StreamBatch \/ StreamResume \/ StreamDone \/ StreamThrow \/ StreamReturned
  \/ WriteIndexes \/ WriteConstraints
  \/ RunClose \/ RunClosed \/ DbClose
  \/ WriterMethodWrite \/ WriterMethodResume \/ WriterMethodRejected \/ WriterCloseEnd
  \/ StreamFlush \/ StreamError \/ StreamFinish
  \/ GenAcquire \/ GenFetchDone \/ GenCloseDone \/ CursorCloseCallback

Spec == Init /\ [][Next]_vars

----------------------------------------------------------------------------
(* One streamTableData(meta, chunkSize) iteration under any consumer:      *)
(* for await that runs to the end, breaks off, or throws in its body       *)

ConsumerStart ==
  /\ cpc = "start"
  /\ GenStart(1, nRows, chunkSize)
  /\ cpc' = "waiting"
  /\ UNCHANGED <<orchVars, writerVars, seqVars, cmpVars, facVars, connVars, inspVars, extVars>>

ConsumerGotBatch ==
  /\ cpc = "waiting"
  /\ gOut = "batch"
  /\ gOut' = "none"
  /\ batches' = Append(batches, gBatch)
  /\ cpc' = "body"
  /\ UNCHANGED <<gState, gExit, gBatch, gTable, chunkSize, nRows, pos, rowsLen, fetches, cursor, releases>>
  /\ UNCHANGED <<orchVars, writerVars, seqVars, cmpVars, facVars, connVars, inspVars, extVars>>

ConsumerNext ==
  /\ cpc = "body"
  /\ GenNext
  /\ cpc' = "waiting"
  /\ UNCHANGED <<orchVars, writerVars, seqVars, cmpVars, facVars, connVars, inspVars, extVars>>

ConsumerBreak ==
  /\ cpc = "body"
  /\ GenReturn
  /\ cpc' = "returning_break"
  /\ UNCHANGED <<orchVars, writerVars, seqVars, cmpVars, facVars, connVars, inspVars, extVars>>

ConsumerThrow ==
  /\ cpc = "body"
  /\ GenReturn
  /\ cpc' = "returning_throw"
  /\ UNCHANGED <<orchVars, writerVars, seqVars, cmpVars, facVars, connVars, inspVars, extVars>>

ConsumerEnd ==
  /\ cpc \in {"waiting", "returning_break", "returning_throw"}
  /\ gOut \in {"done", "throw", "returned"}
  /\ gOut' = "none"
  /\ cpc' = "finished"
  /\ UNCHANGED <<gState, gExit, gBatch, gTable, chunkSize, nRows, pos, rowsLen, fetches, batches,
                 cursor, releases>>
  /\ UNCHANGED <<orchVars, writerVars, seqVars, cmpVars, facVars, connVars, inspVars, extVars>>

(* page sizes and table sizes, among them 10 050 rows in pages of 1000 *)
StreamInputs == ((1..MaxChunk) \X (0..MaxRows)) \cup {<<DefaultChunkSize, 10 * DefaultChunkSize + 50>>}

IdleOrch ==
  /\ engine \in {"postgres", "oracle"}
  /\ schema = "public"
  /\ pc = "off"
  /\ resume = [pc |-> "off", idx |-> 1]
  /\ idx = 1
  /\ tableNames = <<>>
  /\ tablesMetadata = <<>>
  /\ thrown = "none"
  /\ failedAt = "none"
  /\ dbClosed = 0

InitStream ==
  /\ IdleOrch /\ InitWriter /\ InitSeq /\ InitCmp /\ InitFac /\ InitConn /\ InitInsp /\ InitExt
  /\ \E in \in StreamInputs :
       /\ chunkSize = in[1]
       /\ nRows = in[2]
  /\ gState = "none"
  /\ gOut = "none"
  /\ gExit = "none"
  /\ gBatch = [first |-> 0, last |-> 0]
  /\ gTable = 1
  /\ pos = 0
  /\ rowsLen = 0
  /\ fetches = 0
  /\ batches = <<>>
  /\ cursor = [t \in TableIds |-> "none"]
  /\ releases = [t \in TableIds |-> 0]
  /\ cpc = "start"

NextStream ==
  \/ ConsumerStart \/ ConsumerGotBatch \/ ConsumerNext \/ ConsumerBreak \/ ConsumerThrow
  \/ ConsumerEnd
  \/ GenAcquire \/ GenFetchDone \/ GenCloseDone \/ CursorCloseCallback

SpecStream == InitStream /\ [][NextStream]_vars

----------------------------------------------------------------------------
(* One SQLWriter under any caller that awaits each call                    *)

CallerOpen ==
  /\ pc = "caller"
  /\ wstats.calls < MaxCalls
  /\ WriterOpenBegin
  /\ pc' = "caller_method"
  /\ UNCHANGED <<engine, schema, resume, idx, tableNames, tablesMetadata, thrown, failedAt, dbClosed>>
  /\ UNCHANGED <<genVars, cpc, seqVars, cmpVars, facVars, connVars, inspVars, extVars>>

CallerClose ==
  /\ pc = "caller"
  /\ wstats.calls < MaxCalls
  /\ WriterCloseBegin
  /\ pc' = "caller_method"
  /\ UNCHANGED <<engine, schema, resume, idx, tableNames, tablesMetadata, thrown, failedAt, dbClosed>>
  /\ UNCHANGED <<genVars, cpc, seqVars, cmpVars, facVars, connVars, inspVars, extVars>>

CallerWrite ==
  /\ pc = "caller"
  /\ wstats.calls < MaxCalls
  /\ wstate = "idle"
  /\ WriterWrite(Chunk("data", 1, <<[kind |-> "INSERT", table |-> 1, first |-> 1, last |-> 1]>>))
  /\ pc' = "caller_write"
  /\ UNCHANGED <<writeStream, out, mcall, mstep, mresult>>
  /\ UNCHANGED <<engine, schema, resume, idx, tableNames, tablesMetadata, thrown, failedAt, dbClosed>>
  /\ UNCHANGED <<genVars, cpc, seqVars, cmpVars, facVars, connVars, inspVars, extVars>>

(* the awaited call settled *)
CallerResume ==
  /\ \/ /\ pc = "caller_method"
        /\ mresult \in {"ok", "err"}
        /\ mresult' = "none"
        /\ UNCHANGED wstate
     \/ /\ pc = "caller_write"
        /\ wstate \in {"resolved", "rejected"}
        /\ wstate' = "idle"
        /\ UNCHANGED mresult
  /\ pc' = "caller"
  /\ wstats' = [wstats EXCEPT !.calls = @ + 1]
  /\ UNCHANGED <<writeStream, streamState, inflight, out, mcall, mstep>>
  /\ UNCHANGED <<engine, schema, resume, idx, tableNames, tablesMetadata, thrown, failedAt, dbClosed>>
  /\ UNCHANGED <<genVars, cpc, seqVars, cmpVars, facVars, connVars, inspVars, extVars>>

InitWriterOnly ==
  /\ engine = "postgres"
  /\ schema = "public"
  /\ pc = "caller"
  /\ resume = [pc |-> "caller", idx |-> 1]
  /\ idx = 1
  /\ tableNames = <<>>
  /\ tablesMetadata = <<>>
  /\ thrown = "none"
  /\ failedAt = "none"
  /\ dbClosed = 0
  /\ InitWriter /\ InitGen /\ InitSeq /\ InitCmp /\ InitFac /\ InitConn /\ InitInsp /\ InitExt
  /\ cpc = "off"

NextWriter ==
  \/ CallerOpen \/ CallerClose \/ CallerWrite \/ CallerResume
  \/ WriterMethodWrite \/ WriterMethodResume \/ WriterMethodRejected \/ WriterCloseEnd
  \/ StreamFlush \/ StreamFinish

SpecWriter == InitWriterOnly /\ [][NextWriter]_vars

----------------------------------------------------------------------------
(* Sequences: pg_sequences rows -> TableSequence -> CREATE SEQUENCE/setval *)

(* lastValue: sd.last_value || sd.start_value *)
PostgresGetSequences(rows) ==
  [k \in 1..Len(rows) |->
     [name |-> rows[k].sequencename,
      startValue |-> rows[k].start_value,
      incrementBy |-> rows[k].increment_by,
      cacheSize |-> rows[k].cache_size,
      lastValue |-> IF Truthy(rows[k].last_value) THEN rows[k].last_value ELSE rows[k].start_value]]

SeqNames == <<"s1", "s2", "s3", "s4">>
StartValues == {"1", "57"}
LastValues == {Null, "0", "1", "2", "57"}

CatalogRows(n) ==
  {r \in [1..n -> [start_value : StartValues, last_value : LastValues]] : TRUE}

SeqInspect ==
  /\ spc = "catalog"
  /\ seqMeta' = [PlainTable(1) EXCEPT !.sequences = PostgresGetSequences(seqCatalog)]
  /\ spc' = "captured"
  /\ UNCHANGED <<seqCatalog, seqSql>>
  /\ UNCHANGED <<cmpVars, facVars, connVars, inspVars, extVars>>
  /\ UNCHANGED <<orchVars, writerVars, genVars, cpc>>

SeqGenerate ==
  /\ spc = "captured"
  /\ seqSql' = PostgresGenerateSequences(seqMeta)
  /\ spc' = "generated"
  /\ UNCHANGED <<seqCatalog, seqMeta>>
  /\ UNCHANGED <<cmpVars, facVars, connVars, inspVars, extVars>>
  /\ UNCHANGED <<orchVars, writerVars, genVars, cpc>>

InitSeqTrip ==
  /\ IdleOrch /\ InitWriter /\ InitGen /\ InitCmp /\ InitFac /\ InitConn /\ InitInsp /\ InitExt
  /\ cpc = "off"
  /\ \E n \in 1..MaxSeqs : \E r \in CatalogRows(n) :
       seqCatalog = [k \in 1..n |->
                       [sequencename |-> SeqNames[k], start_value |-> r[k].start_value,
                        last_value |-> r[k].last_value, increment_by |-> "1", cache_size |-> "1"]]
  /\ seqMeta = PlainTable(1)
  /\ seqSql = <<>>
  /\ spc = "catalog"

NextSeq == SeqInspect \/ SeqGenerate

SpecSeq == InitSeqTrip /\ [][NextSeq]_vars

----------------------------------------------------------------------------
(* Properties                                                              *)

(* every chunk handed to the stream so far, in the order of the calls *)
Written == out \o [k \in 1..Len(inflight) |-> inflight[k].chunk]

PhaseRank(p) ==
  CASE p = "seq" -> 1
    [] p = "table" -> 2
    [] p = "data" -> 3
    [] p = "index" -> 4
    [] p = "constraint" -> 5
    [] OTHER -> 0

CountPhase(s, p) == Cardinality({k \in 1..Len(s) : s[k].phase = p})

(* C1: in every backup run the writes happen in phase order: sequence DDL, *)
(* then table creation, then data, then index DDL, then foreign-key/unique *)
(* DDL; no write of an earlier phase follows a write of a later phase.     *)
C1_PhaseOrder ==
  \A i, j \in 1..Len(Written) :
    (i < j /\ PhaseRank(Written[i].phase) > 0 /\ PhaseRank(Written[j].phase) > 0)
      => PhaseRank(Written[i].phase) <= PhaseRank(Written[j].phase)

C1_Witness ==
  /\ pc = "done"
  /\ Len(tablesMetadata) = 2
  /\ \A p \in {"seq", "table", "data", "index", "constraint"} : CountPhase(out, p) >= 1
  /\ CountPhase(out, "table") = 2

ErrorOf(step) ==
  CASE step \in {"write", "open_wait", "close_wait"} -> "write"
    [] step \in {"listTables", "getTableMetadata", "fetch"} -> "query"
    [] step = "dbclose" -> "connection"
    [] OTHER -> "none"

(* C2: once a step of run() has failed, the run ends with that error       *)
(* propagated to the caller, and nothing of the same or a later phase runs *)
(* afterwards: no write, no catalog query, no fetch, no close.             *)
C2_FailureAborts ==
  /\ [](failedAt # "none" =>
          /\ pc \in {"failed", "data_return"}
          /\ (pc = "failed" => thrown = ErrorOf(failedAt)))
  /\ [][failedAt # "none" =>
          /\ Written' = Written
          /\ UNCHANGED <<failedAt, tableNames, tablesMetadata, idx, fetches, batches, wstate,
                         mcall, streamState, dbClosed>>
          /\ pc' \in {"failed", "data_return"}]_vars

C2_Witness ==
  /\ pc = "failed"
  /\ failedAt = "write"
  /\ thrown = "write"
  /\ gExit = "return"
  /\ CountPhase(out, "table") = 2
  /\ CountPhase(out, "index") = 0

(* C3: in a run that completes, the three header lines and then the bypass *)
(* directive come before every other write, and the restore directive      *)
(* followed by the footer are the last two writes, after all constraint    *)
(* DDL.                                                                    *)
C3_Framing ==
  pc = "done" =>
    /\ inflight = <<>>
    /\ Len(out) >= 6
    /\ \A k \in 1..3 : out[k].phase = "header"
    /\ out[4].phase = "bypass"
    /\ \A k \in 5..Len(out) : out[k].phase \notin {"header", "bypass"}
    /\ out[Len(out) - 1].phase = "restore"
    /\ out[Len(out)].phase = "footer"
    /\ \A k \in 1..(Len(out) - 2) : out[k].phase \notin {"restore", "footer"}

C3_Witness ==
  /\ pc = "done"
  /\ CountPhase(out, "constraint") >= 1
  /\ out[Len(out) - 2].phase = "constraint"

(* C4: for any sequence of awaited open(), write() and close() calls on    *)
(* one SQLWriter, close() called twice included, the restore directive and *)
(* the footer are written at most once, the stream is ended at most once,  *)
(* and no close() fails or writes to an ended stream.                      *)
C4_CloseOnce ==
  /\ CountPhase(Written, "restore") <= 1
  /\ CountPhase(Written, "footer") <= 1
  /\ wstats.ends <= 1
  /\ wstats.closeErrs = 0
  /\ (mcall = "close" => wstats.writesAfterEnd = 0 \/ wstate # "rejected")

(* C5: a write() is not settled before the stream has written its chunk,   *)
(* whether or not stream.write reported a full buffer, and the flow that   *)
(* called it stays suspended meanwhile; at most one write is outstanding.  *)
C5_Backpressure ==
  /\ Len(inflight) <= 1
  /\ inflight # <<>> =>
       /\ wstate = "pending"
       /\ pc = "await" \/ mcall # "none"

C5_Witness ==
  /\ pc = "await"
  /\ Len(inflight) = 1
  /\ inflight[1].full
  /\ inflight[1].chunk.phase = "data"
  /\ wstate = "pending"

FlushedBatches(t) ==
  Cardinality({k \in 1..Len(out) :
                 out[k].phase = "data" /\ out[k].table = t /\ out[k].text[1].kind = "INSERT"})

(* C6: in the data phase a fetch is issued only when every batch yielded   *)
(* so far has been written completely: fetch k+1 follows the write of      *)
(* batch k, fetches and writes alternate.                                  *)
C6_FetchAfterWrite ==
  pc \in {"data_next", "data_resume", "data_return", "await"} /\ gState # "none" =>
    /\ fetches <= FlushedBatches(gTable) + 1
    /\ gState \in {"acquiring", "fetching"} =>
         /\ wstate = "idle"
         /\ inflight = <<>>
         /\ FlushedBatches(gTable) = Len(batches)
    /\ gState = "fetching" => fetches = Len(batches) + 1

C6_Witness ==
  /\ pc = "data_next"
  /\ gState = "fetching"
  /\ fetches = 3
  /\ FlushedBatches(gTable) = 2
  /\ gTable = 2

(* C7: every started streamTableData iteration releases its server-side    *)
(* resource exactly once on every exit path (stream exhausted, fetch       *)
(* failed, consumer broke off or threw): when the generator has ended the  *)
(* release has been issued, it never happens twice, and once the iteration *)
(* is over and no close callback is pending the resource is closed.        *)
C7_ReleasedOnce ==
  /\ \A t \in TableIds :
       /\ releases[t] <= 1
       /\ releases[t] = 1 <=> cursor[t] = "closed"
  /\ gState = "completed" =>
       IF gExit = "acquireError"
       THEN cursor[gTable] = "none"
       ELSE cursor[gTable] \in {"closing", "closed"}
  /\ (gState = "completed" /\ engine = "oracle" /\ gExit # "acquireError") =>
       cursor[gTable] = "closed"

C7_Witness ==
  /\ cpc = "finished"
  /\ gExit = "return"
  /\ Len(batches) = 2
  /\ cursor[1] = "closed"
  /\ releases[1] = 1

(* C8: at every point of a backup run at most one server-side cursor or    *)
(* result set is open: the cursor of table i is closed, and its pooled     *)
(* client released, before the cursor of table i+1 is opened.              *)
C8_OneCursor ==
  Cardinality({t \in TableIds : cursor[t] \in {"open", "closing"}}) <= 1

Ceil(n, p) == (n + p - 1) \div p

(* C9: a table of N rows read in pages of P yields ceil(N/P) batches in    *)
(* row order, none empty, all of P statements but the last, which holds    *)
(* the remainder; the sizes sum to N and the stream ends at the first      *)
(* fetch that returns no row.                                              *)
C9_Batches ==
  LET want == Ceil(nRows, chunkSize) IN
  /\ Len(batches) <= want
  /\ \A k \in 1..Len(batches) :
       /\ batches[k].first = chunkSize * (k - 1) + 1
       /\ batches[k].last >= batches[k].first
       /\ k < want => batches[k].last - batches[k].first + 1 = chunkSize
       /\ k = want => batches[k].last - batches[k].first + 1 = nRows - chunkSize * (want - 1)
  /\ gExit = "exhausted" =>
       /\ Len(batches) = want
       /\ (want > 0 => batches[want].last = nRows)
       /\ rowsLen = 0
       /\ fetches = want + 1

C9_Witness ==
  /\ cpc = "finished"
  /\ gExit = "exhausted"
  /\ nRows = 10050
  /\ chunkSize = 1000
  /\ Len(batches) = 11
  /\ \A k \in 1..10 : batches[k].last - batches[k].first + 1 = 1000
  /\ batches[11].last - batches[11].first + 1 = 50

Setvals(sql, name) == {k \in 1..Len(sql) : sql[k].kind = "SETVAL" /\ sql[k].name = name}

(* C10: for every captured sequence whose last observed value differs from *)
(* its start value, generateSequences emits one setval for it, and its     *)
(* value is the last observed value, not the start value.                  *)
C10_SetvalLast ==
  spc = "generated" =>
    \A k \in 1..Len(seqMeta.sequences) :
      LET q == seqMeta.sequences[k] IN
      q.lastValue # q.startValue =>
        /\ Cardinality(Setvals(seqSql, q.name)) = 1
        /\ \A j \in Setvals(seqSql, q.name) :
             seqSql[j].value = q.lastValue /\ seqSql[j].value # q.startValue

C10_Witness ==
  /\ spc = "generated"
  /\ \E k \in 1..Len(seqMeta.sequences) :
       /\ seqMeta.sequences[k].startValue = "1"
       /\ seqMeta.sequences[k].lastValue = "57"
       /\ \E j \in Setvals(seqSql, seqMeta.sequences[k].name) : seqSql[j].value = "57"

----------------------------------------------------------------------------
(* Sequences replayed: what PostgreSQL does with the emitted statements    *)

(* the bigint a decimal string of the catalog denotes *)
DecimalValue(s) == CHOOSE n \in 0..99 : ToString(n) = s

(* first nextval() of the source after the backup: a sequence that was    *)
(* never read (last_value IS NULL) hands out its start value, any other   *)
(* one its last value plus the increment                                  *)
SourceNextval(row) ==
  IF row.last_value = Null
  THEN DecimalValue(row.start_value)
  ELSE DecimalValue(row.last_value) + DecimalValue(row.increment_by)

(* first nextval() after replaying sql: CREATE SEQUENCE .. START WITH s   *)
(* hands out s; setval(name, v, true) marks v as used, so v + increment    *)
RestoredNextval(sql, name) ==
  LET create == CHOOSE k \in 1..Len(sql) : sql[k].kind = "CREATE SEQUENCE" /\ sql[k].name = name
      sets   == Setvals(sql, name)
      last   == CHOOSE k \in sets : \A j \in sets : j <= k
  IN IF sets = {}
     THEN DecimalValue(sql[create].value)
     ELSE DecimalValue(sql[last].value) + DecimalValue(sql[last].incrementBy)

(* C11: every sequence the inspector discovers, one that was never         *)
(* advanced included, is recreated in the state it held at backup time:    *)
(* the first value the restored sequence produces is the first value the   *)
(* source sequence would have produced after the backup.                   *)
C11_RestoredState ==
  spc = "generated" =>
    \A k \in 1..Len(seqCatalog) :
      RestoredNextval(seqSql, seqCatalog[k].sequencename) = SourceNextval(seqCatalog[k])

----------------------------------------------------------------------------
(* Schema comparison: catalogs, inspectors, fix generators                 *)

Constraint(name, type, columns) ==
  [name |-> name, type |-> type, columns |-> columns,
   foreignTable |-> IF type = "FOREIGN KEY" THEN "parent" ELSE Null,
   foreignColumns |-> IF type = "FOREIGN KEY" THEN <<"id">> ELSE <<>>]

Index(name) == [name |-> name, definition |-> <<"CREATE INDEX", name>>]

(* structures a table can have; a CHECK constraint is reported by the     *)
(* Oracle inspector only (the Postgres query joins key_column_usage)      *)
TableShapes(e) ==
  << [columns |-> <<IdInt, NameVarchar50>>,
      constraints |-> <<Constraint("pk", "PRIMARY KEY", <<"id">>)>>,
      indexes |-> <<>>],
     [columns |-> <<IdInt, NameVarchar50, NoteText>>,
      constraints |-> <<Constraint("pk", "PRIMARY KEY", <<"id">>),
                        Constraint("fk", "FOREIGN KEY", <<"name">>),
                        Constraint("uq", "UNIQUE", <<"name">>)>>
                      \o (IF e = "oracle" THEN <<Constraint("ck", "CHECK", <<"note">>)>> ELSE <<>>),
      indexes |-> <<Index("ix")>>],
     [columns |-> <<IdBig, NameVarchar100>>,
      constraints |-> <<Constraint("pk", "PRIMARY KEY", <<"id">>)>>,
      indexes |-> <<>>],
     [columns |-> <<IdInt, NameText>>,
      constraints |-> <<Constraint("pk", "PRIMARY KEY", <<"name">>)>>,
      indexes |-> <<Index("ix")>>],
     [columns |-> <<IdInt, NameVarchar50, ExtraNumeric>>,
      constraints |-> <<Constraint("pk", "PRIMARY KEY", <<"id">>),
                        Constraint("tq", "UNIQUE", <<"extra">>)>>,
      indexes |-> <<Index("tx")>>] >>

(* pg_proc rows: a function is identified by its name and argument types *)
Function(name, args, body) == [proname |-> name, args |-> args, body |-> body]
(* pg_trigger / user_triggers rows *)
Trigger(name, tableName, definition) ==
  [name |-> name, tableName |-> tableName, definition |-> definition]

(* functions and triggers a schema can hold, overloaded functions included *)
Routines ==
  << [functions |-> <<>>, triggers |-> <<>>],
     [functions |-> <<Function("f", "int", "A"), Function("f", "text", "B")>>,
      triggers |-> <<Trigger("trg", "1", "D")>>],
     [functions |-> <<Function("f", "int", "A2"), Function("g", "", "C")>>,
      triggers |-> <<Trigger("trg", "1", "D2"), Trigger("trg2", "2", "E")>>],
     [functions |-> <<Function("f", "int", "A")>>,
      triggers |-> <<Trigger("trg", "1", "D")>>] >>

(* table names of a schema *)
CmpTableNames == 1..MaxCmpTables
Injective(s) == \A i, j \in 1..Len(s) : i # j => s[i] # s[j]
Ascending(s) == \A i, j \in 1..Len(s) : i < j => s[i] < s[j]
TableLists == {s \in UNION {[1..n -> CmpTableNames] : n \in 0..MaxCmpTables} : Injective(s)}
Named(s) == [k \in 1..Len(s) |-> ToString(s[k])]

Database(tables, shape, routines) ==
  [tables |-> tables, columns |-> shape.columns, constraints |-> shape.constraints,
   indexes |-> shape.indexes, functions |-> routines.functions, triggers |-> routines.triggers]

(* inspector.listTables(schema) *)
InspectorListTables(db) == Named(db.tables)

(* PostgresInspector.getColumns returns the rows; OracleInspector.getColumns *)
(* has no catalog type name and reports the data type in its place           *)
GetColumns(e, cols) ==
  IF e = "postgres" THEN cols ELSE [k \in 1..Len(cols) |-> [cols[k] EXCEPT !.udtName = cols[k].dataType]]

(* inspector.getTableMetadata(schema, tableName) *)
GetTableMetadata(e, db, tableName) ==
  [name |-> tableName, schema |-> IF e = "postgres" THEN "public" ELSE "USER",
   columns |-> GetColumns(e, db.columns), constraints |-> db.constraints,
   indexes |-> db.indexes, sequences |-> <<>>]

(* one DatabaseObject per pg_proc row; pg_get_functiondef holds name,     *)
(* argument types and body                                                *)
PostgresListFunctions(rows) ==
  [k \in 1..Len(rows) |->
     [name |-> rows[k].proname, definition |-> <<rows[k].proname, rows[k].args, rows[k].body>>]]

RECURSIVE OracleAggregate(_, _)
(* functionsMap.set(row.NAME, (functionsMap.get(row.NAME) || '') + row.DEFINITION) *)
OracleAggregate(rows, acc) ==
  IF rows = <<>> THEN acc
  ELSE LET r == Head(rows)
           S == {p \in 1..Len(acc) : acc[p].name = r.proname}
       IN OracleAggregate(Tail(rows),
            IF S = {}
            THEN Append(acc, [name |-> r.proname, definition |-> <<r.args, r.body>>])
            ELSE [acc EXCEPT ![CHOOSE p \in S : TRUE].definition = @ \o <<r.args, r.body>>])

OracleListFunctions(rows) == OracleAggregate(rows, <<>>)

(* inspector.listFunctions(schema) *)
ListFunctions(e, db) ==
  IF e = "postgres" THEN PostgresListFunctions(db.functions) ELSE OracleListFunctions(db.functions)

(* inspector.listTriggers(schema) *)
ListTriggers(e, db) ==
  [k \in 1..Len(db.triggers) |->
     [name |-> db.triggers[k].name, tableName |-> db.triggers[k].tableName,
      definition |-> db.triggers[k].definition]]

(* ALTER TABLE t ADD COLUMN "c" TYPE [NOT NULL] [DEFAULT d];  Oracle: ADD (c TYPE ..) *)
GenerateAddColumn_NoName(e, table, column) ==
  <<[kind |-> "ADD COLUMN", table |-> table, column |-> "", type |-> TypeStr(e, column),
     notNull |-> ~column.isNullable,
     default |-> IF Truthy(column.columnDefault) THEN column.columnDefault ELSE Null]>>
GenerateAddColumn(e, table, column) ==
  <<[kind |-> "ADD COLUMN", table |-> table, column |-> column.name, type |-> TypeStr(e, column),
     notNull |-> ~column.isNullable,
     default |-> IF Truthy(column.columnDefault) THEN column.columnDefault ELSE Null]>>

(* ALTER COLUMN "c" TYPE ..;  Oracle: MODIFY (c TYPE [NOT NULL] [DEFAULT d]) *)
GenerateAlterColumnType(e, table, column) ==
  <<[kind |-> "ALTER COLUMN TYPE", table |-> table, column |-> column.name,
     type |-> TypeStr(e, column)]>>

(* ALTER COLUMN "c" DROP NOT NULL | SET NOT NULL;  Oracle: MODIFY (c NULL | NOT NULL) *)
GenerateAlterColumnNullability(e, table, column) ==
  <<[kind |-> "ALTER COLUMN NULLABILITY", table |-> table, column |-> column.name,
     notNull |-> ~column.isNullable]>>

(* ALTER COLUMN "c" SET DEFAULT d | DROP DEFAULT;  Oracle: MODIFY (c DEFAULT d | NULL) *)
GenerateAlterColumnDefault(e, table, column) ==
  <<[kind |-> "ALTER COLUMN DEFAULT", table |-> table, column |-> column.name,
     default |-> IF Truthy(column.columnDefault) THEN column.columnDefault ELSE Null]>>

GenerateDropTrigger(e, table, triggerName) ==
  <<[kind |-> "DROP TRIGGER", table |-> IF e = "postgres" THEN table ELSE Null, name |-> triggerName]>>

(* ADD CONSTRAINT for PRIMARY KEY, FOREIGN KEY and UNIQUE; '' for any other type *)
GenerateConstraintFix(e, table, constraint) ==
  IF constraint.type \in {"PRIMARY KEY", "FOREIGN KEY", "UNIQUE"}
  THEN <<[kind |-> "ADD CONSTRAINT", table |-> table, name |-> constraint.name,
          type |-> constraint.type, columns |-> constraint.columns]>>
  ELSE <<>>

----------------------------------------------------------------------------
(* SchemaComparator                                                        *)

(* a SchemaDiff; a field the code leaves out is Null *)
Diff(type, table, column, expected, actual, fix) ==
  [type |-> type, table |-> table, column |-> column, expected |-> expected,
   actual |-> actual, fix |-> fix]

RECURSIVE Flatten(_)
Flatten(ss) == IF ss = <<>> THEN <<>> ELSE Head(ss) \o Flatten(Tail(ss))

(* new Map(list.map(x => [key, x])).get(key): the last entry with the key *)
LastIndex(S) == CHOOSE k \in S : \A j \in S : j <= k

(* `${definition};` *)
Verbatim(definition) == <<[kind |-> "VERBATIM", text |-> definition]>>

(* sCol.udtName !== tCol.udtName *)
TypeDiffers_ByDataType(sCol, tCol) == sCol.dataType # tCol.dataType
TypeDiffers(sCol, tCol) == sCol.udtName # tCol.udtName

(* the body of compareColumns' loop for one source column *)
ColumnDiffs(e, source, target, sCol) ==
  LET S == {k \in 1..Len(target.columns) : target.columns[k].name = sCol.name}
      tCol == target.columns[LastIndex(S)]
  IN IF S = {}
     THEN <<Diff("MISSING_COLUMN", source.name, sCol.name, Null, Null,
                 GenerateAddColumn(e, source.name, sCol))>>
     ELSE (IF TypeDiffers(sCol, tCol)
           THEN <<Diff("TYPE_MISMATCH", source.name, sCol.name, sCol.dataType, tCol.dataType,
                       GenerateAlterColumnType(e, source.name, sCol))>>
           ELSE <<>>)
          \o (IF sCol.isNullable # tCol.isNullable
              THEN <<Diff("NULLABILITY_MISMATCH", source.name, sCol.name,
                          IF sCol.isNullable THEN "NULL" ELSE "NOT NULL",
                          IF tCol.isNullable THEN "NULL" ELSE "NOT NULL",
                          GenerateAlterColumnNullability(e, source.name, sCol))>>
              ELSE <<>>)
          \o (IF sCol.columnDefault # tCol.columnDefault
              THEN <<Diff("DEFAULT_MISMATCH", source.name, sCol.name,
                          IF Truthy(sCol.columnDefault) THEN sCol.columnDefault ELSE "NULL",
                          IF Truthy(tCol.columnDefault) THEN tCol.columnDefault ELSE "NULL",
                          GenerateAlterColumnDefault(e, source.name, sCol))>>
              ELSE <<>>)

CompareColumns(e, source, target) ==
  Flatten([k \in 1..Len(source.columns) |-> ColumnDiffs(e, source, target, source.columns[k])])

CompareConstraints(e, source, target) ==
  LET targetConstraints == {target.constraints[k].name : k \in 1..Len(target.constraints)}
  IN Flatten([k \in 1..Len(source.constraints) |->
       LET sConstraint == source.constraints[k] IN
       IF sConstraint.name \notin targetConstraints
       THEN <<Diff("MISSING_CONSTRAINT", source.name, sConstraint.name, Null, Null,
                   GenerateConstraintFix(e, source.name, sConstraint))>>
       ELSE <<>>])

CompareIndexes(source, target) ==
  LET targetIndexes == {target.indexes[k].name : k \in 1..Len(target.indexes)}
  IN Flatten([k \in 1..Len(source.indexes) |->
       LET sIndex == source.indexes[k] IN
       IF sIndex.name \notin targetIndexes
       THEN <<Diff("MISSING_INDEX", source.name, sIndex.name, Null, Null,
                   Verbatim(sIndex.definition))>>
       ELSE <<>>])

(* lines 43-45: columns, then constraints, then indexes *)
CompareTable_ConstraintsFirst(e, source, target) ==
  CompareConstraints(e, source, target) \o CompareColumns(e, source, target)
  \o CompareIndexes(source, target)
CompareTable(e, source, target) ==
  CompareColumns(e, source, target) \o CompareConstraints(e, source, target)
  \o CompareIndexes(source, target)

(* the diff pushed for a source table the target does not list *)
MissingTableDiff_ConstraintsAsFix(e, meta) ==
  Diff("MISSING_TABLE", meta.name, Null, Null, Null, GenerateConstraints(e, meta))
MissingTableDiff(e, meta) ==
  Diff("MISSING_TABLE", meta.name, Null, Null, Null, GenerateTableCreate(e, meta))

(* the loop of compareFunctions over sourceFunctions *)
CompareFunctions(sourceFunctions, targetFunctions) ==
  Flatten([k \in 1..Len(sourceFunctions) |->
    LET sFunc == sourceFunctions[k]
        S == {j \in 1..Len(targetFunctions) : targetFunctions[j].name = sFunc.name}
        tFunc == targetFunctions[LastIndex(S)]
    IN IF S = {}
       THEN <<Diff("MISSING_FUNCTION", "-", sFunc.name, Null, Null, Verbatim(sFunc.definition))>>
       ELSE IF sFunc.definition # tFunc.definition
            THEN <<Diff("FUNCTION_MISMATCH", "-", sFunc.name, Null, Null,
                        Verbatim(sFunc.definition))>>
            ELSE <<>>])

(* the loop of compareTriggers over sourceTriggers, keyed by table and name *)
CompareTriggers(e, sourceTriggers, targetTriggers) ==
  Flatten([k \in 1..Len(sourceTriggers) |->
    LET sTrig == sourceTriggers[k]
        S == {j \in 1..Len(targetTriggers) :
                /\ targetTriggers[j].tableName = sTrig.tableName
                /\ targetTriggers[j].name = sTrig.name}
        tTrig == targetTriggers[LastIndex(S)]
    IN IF S = {}
       THEN <<Diff("MISSING_TRIGGER", sTrig.tableName, sTrig.name, Null, Null,
                   Verbatim(sTrig.definition))>>
       ELSE IF sTrig.definition # tTrig.definition
            THEN <<Diff("TRIGGER_MISMATCH", sTrig.tableName, sTrig.name, Null, Null,
                        GenerateDropTrigger(e, sTrig.tableName, sTrig.name)
                        \o Verbatim(sTrig.definition))>>
            ELSE <<>>])

(* an inspector call: side "source" | "target", table "-" when it has none *)
AwaitedQueries ==
  {"src.listTables", "tgt.listTables", "src.getTableMetadata", "tgt.getTableMetadata",
   "src.listFunctions", "tgt.listFunctions", "src.listTriggers", "tgt.listTriggers"}

(* compare() has no try/catch: a rejected inspector call rejects compare() *)
Rejection_BestEffort(query, ds) ==
  [pc |-> "resolved", error |-> "none",
   result |-> <<[sourceDb |-> "source", targetDb |-> "target", diffs |-> ds]>>]
Rejection(query, ds) == [pc |-> "rejected", error |-> query, result |-> <<>>]

(* compare(sourceSchema, targetSchema) is called *)
CompareStart ==
  /\ cmpPc = "new"
  /\ diffs' = <<>>
  /\ queries' = Append(queries, Query("source", "listTables", "-"))
  /\ cmpPc' = "src.listTables"
  /\ UNCHANGED <<cmpInputs, cmpIdx, sourceTables, targetTables, sourceMeta, sourceObjects,
                 cmpResult, cmpError>>
  /\ UNCHANGED <<orchVars, writerVars, genVars, cpc, seqVars, facVars, connVars, inspVars, extVars>>

SourceTablesListed ==
  /\ cmpPc = "src.listTables"
  /\ sourceTables' = InspectorListTables(sourceDb)
  /\ queries' = Append(queries, Query("target", "listTables", "-"))
  /\ cmpPc' = "tgt.listTables"
  /\ UNCHANGED <<cmpInputs, cmpIdx, targetTables, sourceMeta, sourceObjects, diffs,
                 cmpResult, cmpError>>
  /\ UNCHANGED <<orchVars, writerVars, genVars, cpc, seqVars, facVars, connVars, inspVars, extVars>>

(* the head of the for..of over sourceTables at index i: both branches of *)
(* the loop body begin by fetching the source metadata; after the loop     *)
(* compareFunctions lists the source functions                             *)
LoopStep(i) ==
  /\ cmpIdx' = i
  /\ IF i <= Len(sourceTables)
     THEN /\ cmpPc' = "src.getTableMetadata"
          /\ queries' = Append(queries, Query("source", "getTableMetadata", sourceTables[i]))
     ELSE /\ cmpPc' = "src.listFunctions"
          /\ queries' = Append(queries, Query("source", "listFunctions", "-"))

TargetTablesListed ==
  /\ cmpPc = "tgt.listTables"
  /\ targetTables' = InspectorListTables(targetDb)
  /\ LoopStep(1)
  /\ UNCHANGED <<cmpInputs, sourceTables, sourceMeta, sourceObjects, diffs, cmpResult, cmpError>>
  /\ UNCHANGED <<orchVars, writerVars, genVars, cpc, seqVars, facVars, connVars, inspVars, extVars>>

(* targetTables.includes(tableName) *)
TableListed(tables, tableName) == \E k \in 1..Len(tables) : tables[k] = tableName

(* lines 28-37 *)
MissingTable ==
  /\ cmpPc = "src.getTableMetadata"
  /\ ~TableListed(targetTables, sourceTables[cmpIdx])
  /\ sourceMeta' = GetTableMetadata(dbType, sourceDb, sourceTables[cmpIdx])
  /\ diffs' = Append(diffs, MissingTableDiff(dbType, sourceMeta'))
  /\ LoopStep(cmpIdx + 1)
  /\ UNCHANGED <<cmpInputs, sourceTables, targetTables, sourceObjects, cmpResult, cmpError>>
  /\ UNCHANGED <<orchVars, writerVars, genVars, cpc, seqVars, facVars, connVars, inspVars, extVars>>

(* lines 40-41 *)
SourceMetadataFetched ==
  /\ cmpPc = "src.getTableMetadata"
  /\ TableListed(targetTables, sourceTables[cmpIdx])
  /\ sourceMeta' = GetTableMetadata(dbType, sourceDb, sourceTables[cmpIdx])
  /\ queries' = Append(queries, Query("target", "getTableMetadata", sourceTables[cmpIdx]))
  /\ cmpPc' = "tgt.getTableMetadata"
  /\ UNCHANGED <<cmpInputs, cmpIdx, sourceTables, targetTables, sourceObjects, diffs,
                 cmpResult, cmpError>>
  /\ UNCHANGED <<orchVars, writerVars, genVars, cpc, seqVars, facVars, connVars, inspVars, extVars>>

(* lines 41-46 *)
TargetMetadataFetched ==
  /\ cmpPc = "tgt.getTableMetadata"
  /\ LET targetMeta == GetTableMetadata(dbType, targetDb, sourceTables[cmpIdx])
     IN diffs' = diffs \o CompareTable(dbType, sourceMeta, targetMeta)
  /\ LoopStep(cmpIdx + 1)
  /\ UNCHANGED <<cmpInputs, sourceTables, targetTables, sourceMeta, sourceObjects,
                 cmpResult, cmpError>>
  /\ UNCHANGED <<orchVars, writerVars, genVars, cpc, seqVars, facVars, connVars, inspVars, extVars>>

SourceFunctionsListed ==
  /\ cmpPc = "src.listFunctions"
  /\ sourceObjects' = ListFunctions(dbType, sourceDb)
  /\ queries' = Append(queries, Query("target", "listFunctions", "-"))
  /\ cmpPc' = "tgt.listFunctions"
  /\ UNCHANGED <<cmpInputs, cmpIdx, sourceTables, targetTables, sourceMeta, diffs,
                 cmpResult, cmpError>>
  /\ UNCHANGED <<orchVars, writerVars, genVars, cpc, seqVars, facVars, connVars, inspVars, extVars>>

TargetFunctionsListed ==
  /\ cmpPc = "tgt.listFunctions"
  /\ diffs' = diffs \o CompareFunctions(sourceObjects, ListFunctions(dbType, targetDb))
  /\ queries' = Append(queries, Query("source", "listTriggers", "-"))
  /\ cmpPc' = "src.listTriggers"
  /\ UNCHANGED <<cmpInputs, cmpIdx, sourceTables, targetTables, sourceMeta, sourceObjects,
                 cmpResult, cmpError>>
  /\ UNCHANGED <<orchVars, writerVars, genVars, cpc, seqVars, facVars, connVars, inspVars, extVars>>

SourceTriggersListed ==
  /\ cmpPc = "src.listTriggers"
  /\ sourceObjects' = ListTriggers(dbType, sourceDb)
  /\ queries' = Append(queries, Query("target", "listTriggers", "-"))
  /\ cmpPc' = "tgt.listTriggers"
  /\ UNCHANGED <<cmpInputs, cmpIdx, sourceTables, targetTables, sourceMeta, diffs,
                 cmpResult, cmpError>>
  /\ UNCHANGED <<orchVars, writerVars, genVars, cpc, seqVars, facVars, connVars, inspVars, extVars>>

(* compareTriggers ends and compare() returns { sourceDb, targetDb, diffs } *)
TargetTriggersListed ==
  /\ cmpPc = "tgt.listTriggers"
  /\ diffs' = diffs \o CompareTriggers(dbType, sourceObjects, ListTriggers(dbType, targetDb))
  /\ cmpResult' = <<[sourceDb |-> "source", targetDb |-> "target", diffs |-> diffs']>>
  /\ cmpPc' = "resolved"
  /\ UNCHANGED <<cmpInputs, cmpIdx, sourceTables, targetTables, sourceMeta, sourceObjects,
                 queries, cmpError>>
  /\ UNCHANGED <<orchVars, writerVars, genVars, cpc, seqVars, facVars, connVars, inspVars, extVars>>

(* the awaited inspector call rejects *)
QueryFails ==
  /\ cmpPc \in AwaitedQueries
  /\ LET r == Rejection(cmpPc, diffs)
     IN /\ cmpPc' = r.pc
        /\ cmpError' = r.error
        /\ cmpResult' = r.result
  /\ UNCHANGED <<cmpInputs, cmpIdx, sourceTables, targetTables, sourceMeta, sourceObjects,
                 diffs, queries>>
  /\ UNCHANGED <<orchVars, writerVars, genVars, cpc, seqVars, facVars, connVars, inspVars, extVars>>

(* new SchemaComparator(source, target, dbType).compare() on any two schemas; *)
(* every table of one schema has the same structure                          *)
InitCompare ==
  /\ IdleOrch /\ InitWriter /\ InitGen /\ InitSeq /\ InitFac /\ InitConn /\ InitInsp /\ InitExt
  /\ cpc = "off"
  /\ dbType \in {"postgres", "oracle"}
  /\ \E st \in TableLists, ss \in 1..Len(TableShapes(dbType)), sr \in 1..Len(Routines) :
       sourceDb = Database(st, TableShapes(dbType)[ss], Routines[sr])
  /\ \E tt \in {s \in TableLists : Ascending(s)}, ts \in 1..Len(TableShapes(dbType)),
        tr \in 1..Len(Routines) :
       targetDb = Database(tt, TableShapes(dbType)[ts], Routines[tr])
  /\ cmpPc = "new"
  /\ cmpIdx = 1
  /\ sourceTables = <<>>
  /\ targetTables = <<>>
  /\ sourceMeta = Null
  /\ sourceObjects = <<>>
  /\ diffs = <<>>
  /\ queries = <<>>
  /\ cmpResult = <<>>
  /\ cmpError = "none"

NextCompare ==
  \/ CompareStart \/ SourceTablesListed \/ TargetTablesListed
  \/ MissingTable \/ SourceMetadataFetched \/ TargetMetadataFetched
  \/ SourceFunctionsListed \/ TargetFunctionsListed
  \/ SourceTriggersListed \/ TargetTriggersListed
  \/ QueryFails

SpecCompare == InitCompare /\ [][NextCompare]_vars

----------------------------------------------------------------------------
(* Properties of the comparison                                            *)

(* the diffs compare() delivered *)
Delivered == cmpResult[1].diffs

(* C12: compare() run on a source and a target inspector that return       *)
(* identical results returns an empty diff list, also when the function    *)
(* list holds several functions of the same name.                          *)
C12_SelfCompareEmpty ==
  (cmpPc = "resolved" /\ sourceDb = targetDb) => Delivered = <<>>

ColumnKinds == {"MISSING_COLUMN", "TYPE_MISMATCH", "NULLABILITY_MISMATCH", "DEFAULT_MISMATCH"}
TableKinds == {"MISSING_TABLE"} \cup ColumnKinds \cup {"MISSING_CONSTRAINT", "MISSING_INDEX"}

(* what the two inspectors return for a table *)
SourceMetaOf(t) == GetTableMetadata(dbType, sourceDb, t)
TargetMetaOf(t) == GetTableMetadata(dbType, targetDb, t)

(* tables listed on both sides / on the source side only *)
SharedTables ==
  {t \in {ToString(n) : n \in CmpTableNames} :
     TableListed(InspectorListTables(sourceDb), t) /\ TableListed(InspectorListTables(targetDb), t)}
SourceOnlyTables ==
  {t \in {ToString(n) : n \in CmpTableNames} :
     TableListed(InspectorListTables(sourceDb), t) /\ ~TableListed(InspectorListTables(targetDb), t)}

Elems(s) == {s[k] : k \in 1..Len(s)}
ColumnNamed(meta, name) == CHOOSE c \in Elems(meta.columns) : c.name = name
ColumnNames(meta) == {c.name : c \in Elems(meta.columns)}

(* source columns the target table lacks *)
AbsentColumns(t) ==
  {c \in Elems(SourceMetaOf(t).columns) : c.name \notin ColumnNames(TargetMetaOf(t))}

(* every source column the target holds equals it in catalog type, nullability and default *)
SharedColumnsEqual(t) ==
  \A c \in Elems(SourceMetaOf(t).columns) :
    c.name \in ColumnNames(TargetMetaOf(t)) =>
      LET tc == ColumnNamed(TargetMetaOf(t), c.name)
      IN c.udtName = tc.udtName /\ c.isNullable = tc.isNullable
         /\ c.columnDefault = tc.columnDefault

ColumnDiffsOf(ds, t) == SelectSeq(ds, LAMBDA d : d.type \in ColumnKinds /\ d.table = t)

(* C13: for a table on both sides whose target holds every source column  *)
(* but one, the shared columns being equal in catalog type, nullability    *)
(* and default, the comparison yields exactly one column diff for the      *)
(* table: a MISSING_COLUMN naming the absent column, whose fix is one      *)
(* ADD COLUMN statement with that column's name and type.                  *)
C13_OneMissingColumn ==
  cmpPc = "resolved" =>
    \A t \in SharedTables :
      (Cardinality(AbsentColumns(t)) = 1 /\ SharedColumnsEqual(t)) =>
        LET c  == CHOOSE x \in AbsentColumns(t) : TRUE
            ds == ColumnDiffsOf(Delivered, t)
        IN /\ Len(ds) = 1
           /\ ds[1].type = "MISSING_COLUMN"
           /\ ds[1].column = c.name
           /\ Len(ds[1].fix) = 1
           /\ ds[1].fix[1].kind = "ADD COLUMN"
           /\ ds[1].fix[1].table = t
           /\ ds[1].fix[1].column = c.name
           /\ dbType = "postgres" => ds[1].fix[1].type.name = ToUpperCase(c.dataType)
           /\ dbType = "oracle" => ds[1].fix[1].type.name \in {"VARCHAR2", "NUMBER"}

C13_Witness ==
  /\ cmpPc = "resolved"
  /\ \E t \in SharedTables :
       /\ Cardinality(AbsentColumns(t)) = 1 /\ SharedColumnsEqual(t)
       /\ Len(SourceMetaOf(t).columns) = 3
       /\ \E k \in 1..Len(Delivered) :
            /\ Delivered[k].type = "MISSING_COLUMN" /\ Delivered[k].table = t
            /\ Delivered[k].column = "note"
       /\ \E k \in 1..Len(Delivered) : Delivered[k].type = "MISSING_CONSTRAINT"

TypeMismatches(ds, t, column) ==
  {k \in 1..Len(ds) : ds[k].type = "TYPE_MISMATCH" /\ ds[k].table = t /\ ds[k].column = column}

(* C14: for a column present on both sides the comparison reports one      *)
(* TYPE_MISMATCH if the catalog type names (udtName) differ and none if    *)
(* they are equal, whatever the display type, length, precision or scale.  *)
C14_TypeMismatchIffUdt ==
  cmpPc = "resolved" =>
    \A t \in SharedTables : \A c \in Elems(SourceMetaOf(t).columns) :
      c.name \in ColumnNames(TargetMetaOf(t)) =>
        Cardinality(TypeMismatches(Delivered, t, c.name)) =
          (IF c.udtName # ColumnNamed(TargetMetaOf(t), c.name).udtName THEN 1 ELSE 0)

C14_Witness ==
  /\ cmpPc = "resolved"
  /\ \E t \in SharedTables :
       /\ \E c \in Elems(SourceMetaOf(t).columns) :
            /\ c.name \in ColumnNames(TargetMetaOf(t))
            /\ LET tc == ColumnNamed(TargetMetaOf(t), c.name)
               IN /\ c.udtName = tc.udtName /\ c.dataType # tc.dataType
                  /\ c.characterMaximumLength # tc.characterMaximumLength
            /\ TypeMismatches(Delivered, t, c.name) = {}
       /\ \E c \in Elems(SourceMetaOf(t).columns) :
            /\ c.name \in ColumnNames(TargetMetaOf(t))
            /\ c.udtName # ColumnNamed(TargetMetaOf(t), c.name).udtName
            /\ TypeMismatches(Delivered, t, c.name) # {}

(* the ComparisonResult diffs of compare() as a function of the two catalogs *)
CompareAll(e, src, tgt) ==
  Flatten([k \in 1..Len(InspectorListTables(src)) |->
     LET t == InspectorListTables(src)[k] IN
     IF ~TableListed(InspectorListTables(tgt), t)
     THEN <<MissingTableDiff(e, GetTableMetadata(e, src, t))>>
     ELSE CompareTable(e, GetTableMetadata(e, src, t), GetTableMetadata(e, tgt, t))])
  \o CompareFunctions(ListFunctions(e, src), ListFunctions(e, tgt))
  \o CompareTriggers(e, ListTriggers(e, src), ListTriggers(e, tgt))

(* tgt without the objects that exist in tgt only: tables, columns,        *)
(* constraints and indexes by name, triggers by table and name, functions  *)
(* by name and argument types (Oracle: by name, its rows being the lines   *)
(* of one function)                                                        *)
WithoutTargetOnly(e, tgt, src) ==
  [tables |-> SelectSeq(tgt.tables, LAMBDA t : t \in Elems(src.tables)),
   columns |-> SelectSeq(tgt.columns, LAMBDA c : \E x \in Elems(src.columns) : x.name = c.name),
   constraints |-> SelectSeq(tgt.constraints,
                             LAMBDA c : \E x \in Elems(src.constraints) : x.name = c.name),
   indexes |-> SelectSeq(tgt.indexes, LAMBDA c : \E x \in Elems(src.indexes) : x.name = c.name),
   functions |-> SelectSeq(tgt.functions,
                           LAMBDA f : \E x \in Elems(src.functions) :
                                        x.proname = f.proname /\ (e = "oracle" \/ x.args = f.args)),
   triggers |-> SelectSeq(tgt.triggers,
                          LAMBDA g : \E x \in Elems(src.triggers) :
                                       x.name = g.name /\ x.tableName = g.tableName)]

(* the object a diff is about exists in the source *)
NamesSourceObject(d) ==
  CASE d.type = "MISSING_TABLE" -> TableListed(InspectorListTables(sourceDb), d.table)
    [] d.type \in ColumnKinds ->
         /\ TableListed(InspectorListTables(sourceDb), d.table)
         /\ \E x \in Elems(sourceDb.columns) : x.name = d.column
    [] d.type = "MISSING_CONSTRAINT" ->
         /\ TableListed(InspectorListTables(sourceDb), d.table)
         /\ \E x \in Elems(sourceDb.constraints) : x.name = d.column
    [] d.type = "MISSING_INDEX" ->
         /\ TableListed(InspectorListTables(sourceDb), d.table)
         /\ \E x \in Elems(sourceDb.indexes) : x.name = d.column
    [] d.type \in {"MISSING_FUNCTION", "FUNCTION_MISMATCH"} ->
         \E x \in Elems(sourceDb.functions) : x.proname = d.column
    [] d.type \in {"MISSING_TRIGGER", "TRIGGER_MISMATCH"} ->
         \E x \in Elems(sourceDb.triggers) : x.name = d.column /\ x.tableName = d.table

(* C15: every diff compare() returns concerns an object of the source, and *)
(* objects that exist in the target only never produce a diff: the result  *)
(* is the one obtained against the target without its target-only objects. *)
C15_OneDirectional ==
  cmpPc = "resolved" =>
    /\ \A k \in 1..Len(Delivered) : NamesSourceObject(Delivered[k])
    /\ Delivered = CompareAll(dbType, sourceDb, WithoutTargetOnly(dbType, targetDb, sourceDb))

(* position of a table in the source listTables result *)
SourcePosition(t) ==
  CHOOSE k \in 1..Len(InspectorListTables(sourceDb)) : InspectorListTables(sourceDb)[k] = t

KindRank(type) ==
  CASE type = "MISSING_TABLE" -> 0
    [] type \in ColumnKinds -> 1
    [] type = "MISSING_CONSTRAINT" -> 2
    [] type = "MISSING_INDEX" -> 3

(* i-th diff may come before the j-th *)
InOrder(a, b) ==
  CASE a.type \in TableKinds /\ b.type \in TableKinds ->
         \/ SourcePosition(a.table) < SourcePosition(b.table)
         \/ /\ a.table = b.table
            /\ KindRank(a.type) <= KindRank(b.type)
    [] a.type \in TableKinds -> TRUE
    [] a.type \in {"MISSING_FUNCTION", "FUNCTION_MISMATCH"} -> b.type \notin TableKinds
    [] OTHER -> b.type \in {"MISSING_TRIGGER", "TRIGGER_MISMATCH"}

(* C16: the diffs of a ComparisonResult follow the source listTables      *)
(* order: the diffs of source table i precede those of source table j for  *)
(* i < j; within a table column diffs precede constraint diffs, which      *)
(* precede index diffs; function diffs and then trigger diffs come last.   *)
C16_DiffOrder ==
  cmpPc = "resolved" =>
    \A i, j \in 1..Len(Delivered) : i < j => InOrder(Delivered[i], Delivered[j])

C16_Witness ==
  /\ cmpPc = "resolved"
  /\ InspectorListTables(sourceDb) = <<"2", "1">>
  /\ \A t \in {"1", "2"} : \A ty \in {"MISSING_COLUMN", "MISSING_CONSTRAINT", "MISSING_INDEX"} :
       \E k \in 1..Len(Delivered) : Delivered[k].table = t /\ Delivered[k].type = ty
  /\ \E k \in 1..Len(Delivered) : Delivered[k].type = "MISSING_FUNCTION"
  /\ \E k \in 1..Len(Delivered) : Delivered[k].type = "TRIGGER_MISMATCH"

TableDiffsOf(ds, t) == SelectSeq(ds, LAMBDA d : d.type \in TableKinds /\ d.table = t)

(* C17: a source table the target does not list yields exactly one table   *)
(* diff, a MISSING_TABLE whose fix is the generator's CREATE TABLE text    *)
(* for the source metadata; no column, constraint or index diff is made    *)
(* for it, and the target is never asked for its metadata.                 *)
C17_MissingTable ==
  /\ \A k \in 1..Len(queries) :
       (queries[k].side = "target" /\ queries[k].query = "getTableMetadata")
         => TableListed(InspectorListTables(targetDb), queries[k].table)
  /\ cmpPc = "resolved" =>
       \A t \in SourceOnlyTables :
         LET ds == TableDiffsOf(Delivered, t)
         IN /\ Len(ds) = 1
            /\ ds[1].type = "MISSING_TABLE"
            /\ ds[1].fix = GenerateTableCreate(dbType, SourceMetaOf(t))
            /\ ds[1].fix[1].kind = "CREATE TABLE"
            /\ ds[1].fix[1].table = t

C17_Witness ==
  /\ cmpPc = "resolved"
  /\ \E t \in SourceOnlyTables :
       /\ \E k \in 1..Len(Delivered) : Delivered[k].type = "MISSING_TABLE" /\ Delivered[k].table = t
       /\ Len(SourceMetaOf(t).constraints) >= 3
       /\ Len(SourceMetaOf(t).indexes) = 1
  /\ SharedTables # {}

ConstraintDiffs(ds, t, name) ==
  {k \in 1..Len(ds) : ds[k].type = "MISSING_CONSTRAINT" /\ ds[k].table = t /\ ds[k].column = name}

(* C18: every source constraint whose name the target table lacks, of      *)
(* whatever kind, yields one MISSING_CONSTRAINT diff whose fix is a        *)
(* non-empty ADD CONSTRAINT statement of its kind; a constraint whose name *)
(* the target has yields none, even if its columns differ.                 *)
C18_MissingConstraintFix ==
  cmpPc = "resolved" =>
    \A t \in SharedTables : \A c \in Elems(SourceMetaOf(t).constraints) :
      IF \E x \in Elems(TargetMetaOf(t).constraints) : x.name = c.name
      THEN ConstraintDiffs(Delivered, t, c.name) = {}
      ELSE /\ Cardinality(ConstraintDiffs(Delivered, t, c.name)) = 1
           /\ \A k \in ConstraintDiffs(Delivered, t, c.name) :
                /\ Delivered[k].fix # <<>>
                /\ Delivered[k].fix[1].kind = "ADD CONSTRAINT"
                /\ Delivered[k].fix[1].type = c.type

(* C19: a failing inspector query makes compare() fail with that error and *)
(* deliver no ComparisonResult; a result is delivered only after all       *)
(* queries were answered, and it is the complete one.                      *)
C19_NoPartialResult ==
  /\ cmpPc = "rejected" =>
       /\ cmpResult = <<>>
       /\ cmpError \in AwaitedQueries
  /\ cmpResult # <<>> =>
       /\ cmpPc = "resolved"
       /\ cmpError = "none"
       /\ queries[Len(queries)] = Query("target", "listTriggers", "-")
       /\ Delivered = CompareAll(dbType, sourceDb, targetDb)

C19_Witness ==
  /\ cmpPc = "rejected"
  /\ cmpError = "tgt.listFunctions"
  /\ diffs # <<>>
  /\ cmpResult = <<>>

----------------------------------------------------------------------------
(* EngineFactory and the Orchestrator constructor                          *)

SupportedTypes == {"postgres", "oracle"}
(* engine types a caller may pass *)
EngineTypes == SupportedTypes \cup {"mysql", "sqlite"}
(* config.dbType: an engine type, '' or absent *)
ConfigTypes == EngineTypes \cup {"", Null}

FactoryMethods == <<"createConnection", "createInspector", "createGenerator", "createExtractor">>

(* the switch of each factory method: the engine's implementation, or      *)
(* throw new Error(`Unsupported database type: ${type}`)                   *)
Create_DefaultsToPostgres(method, type) ==
  [objects |-> <<[made |-> method,
                  engine |-> IF type \in SupportedTypes THEN type ELSE "postgres"]>>,
   error |-> "none"]
Create(method, type) ==
  IF type \in SupportedTypes
  THEN [objects |-> <<[made |-> method, engine |-> type]>>, error |-> "none"]
  ELSE [objects |-> <<>>, error |-> "Unsupported database type"]

(* const type = config.dbType || 'postgres' *)
OrchestratorType(cfgType) == IF Truthy(cfgType) THEN cfgType ELSE "postgres"

(* the constructor body: four factory calls, then new SQLWriter(..); the   *)
(* first call that throws ends it                                          *)
ConstructOrchestrator(cfgType) ==
  LET type    == OrchestratorType(cfgType)
      steps   == [k \in 1..Len(FactoryMethods) |-> Create(FactoryMethods[k], type)]
      failing == {k \in 1..Len(FactoryMethods) : steps[k].error # "none"}
      first   == CHOOSE k \in failing : \A j \in failing : k <= j
  IN IF failing = {}
     THEN [objects |-> Flatten([k \in 1..Len(FactoryMethods) |-> steps[k].objects])
                       \o <<[made |-> "new SQLWriter", engine |-> "-"]>>,
           error |-> "none"]
     ELSE [objects |-> Flatten([k \in 1..(first - 1) |-> steps[k].objects]),
           error |-> steps[first].error]

(* EngineFactory.createX(type, ..) *)
FactoryCall ==
  /\ facCall.n < MaxFactoryCalls
  /\ \E m \in 1..Len(FactoryMethods), type \in EngineTypes :
       LET r == Create(FactoryMethods[m], type)
       IN /\ created' = created \o r.objects
          /\ facError' = r.error
          /\ facCall' = [method |-> FactoryMethods[m], type |-> type, n |-> facCall.n + 1]
  /\ UNCHANGED <<orchVars, writerVars, genVars, cpc, seqVars, cmpVars, connVars, inspVars, extVars>>

(* new Orchestrator(config) *)
NewOrchestrator ==
  /\ facCall.n < MaxFactoryCalls
  /\ \E cfgType \in ConfigTypes :
       LET r == ConstructOrchestrator(cfgType)
       IN /\ created' = created \o r.objects
          /\ facError' = r.error
          /\ facCall' = [method |-> "new Orchestrator", type |-> OrchestratorType(cfgType),
                          n |-> facCall.n + 1]
  /\ UNCHANGED <<orchVars, writerVars, genVars, cpc, seqVars, cmpVars, connVars, inspVars, extVars>>

InitFactory ==
  /\ IdleOrch /\ InitWriter /\ InitGen /\ InitSeq /\ InitCmp /\ InitFac /\ InitConn /\ InitInsp /\ InitExt
  /\ engine = "postgres"
  /\ cpc = "off"

NextFactory == FactoryCall \/ NewOrchestrator

SpecFactory == InitFactory /\ [][NextFactory]_vars

(* C20: a factory method called with an engine type other than 'postgres'  *)
(* or 'oracle' throws the unsupported-engine error and creates nothing;    *)
(* constructing an Orchestrator with such a type fails before anything,    *)
(* connection, inspector, extractor or writer, is constructed.             *)
C20_UnsupportedEngine ==
  [][(facCall'.n # facCall.n /\ facCall'.type \notin SupportedTypes) =>
       (facError' = "Unsupported database type" /\ created' = created)]_vars

C20_Witness ==
  /\ facCall.method = "new Orchestrator"
  /\ facCall.type = "mysql"
  /\ facError = "Unsupported database type"
  /\ Len(created) = 5
  /\ created[5].made = "new SQLWriter"

----------------------------------------------------------------------------
(* Connections: OracleConnection (one managed session) and the pooled     *)
(* DbConnection.  A call is a record: pc is where the async method is     *)
(* suspended, conn the session it works on, after whether a close() had   *)
(* completed when it started, reclosed whether it closed a session that   *)
(* had been closed before.                                                 *)

MaxConnCalls == 3
MaxPoolCalls == 3

CloseCompleted == \E i \in DOMAIN calls : calls[i].method = "close" /\ calls[i].pc = "done"

PoolCloseCompleted ==
  \E i \in DOMAIN poolCalls : poolCalls[i].method = "close" /\ poolCalls[i].result = "ok"

NewCall(m) ==
  [method |-> m, pc |-> "start", conn |-> NoSession, after |-> CloseCompleted, reclosed |-> FALSE]

(* connect() up to its await: the session held, or oracledb.getConnection *)
Connect(c) ==
  IF connection # NoSession
  THEN [c EXCEPT !.pc = "connected", !.conn = connection]
  ELSE [c EXCEPT !.pc = "connecting"]

(* query(..) / getConnection() called: await this.connect() *)
OracleCall ==
  /\ Len(calls) < MaxConnCalls
  /\ \E m \in {"query", "getConnection"} : calls' = Append(calls, Connect(NewCall(m)))
  /\ UNCHANGED <<connection, sessions, pool, poolCalls>>
  /\ UNCHANGED <<orchVars, writerVars, genVars, cpc, seqVars, cmpVars, facVars, inspVars, extVars>>

(* oracledb.getConnection resolved: the session is stored in the field *)
OracleConnected ==
  /\ \E i \in DOMAIN calls :
       /\ calls[i].pc = "connecting"
       /\ sessions' = Append(sessions, "open")
       /\ connection' = Len(sessions) + 1
       /\ calls' = [calls EXCEPT ![i].pc = "connected", ![i].conn = Len(sessions) + 1]
  /\ UNCHANGED <<pool, poolCalls>>
  /\ UNCHANGED <<orchVars, writerVars, genVars, cpc, seqVars, cmpVars, facVars, inspVars, extVars>>

(* oracledb.getConnection rejected: logged and rethrown *)
OracleConnectFailed ==
  /\ \E i \in DOMAIN calls :
       /\ calls[i].pc = "connecting"
       /\ calls' = [calls EXCEPT ![i].pc = "failed"]
  /\ UNCHANGED <<connection, sessions, pool, poolCalls>>
  /\ UNCHANGED <<orchVars, writerVars, genVars, cpc, seqVars, cmpVars, facVars, inspVars, extVars>>

(* connect() delivered a session: getConnection returns it, query runs    *)
(* conn.execute on it, which a closed session rejects                     *)
OracleExecuted ==
  /\ \E i \in DOMAIN calls :
       /\ calls[i].pc = "connected"
       /\ calls' = [calls EXCEPT ![i].pc =
                      IF calls[i].method = "query" /\ sessions[calls[i].conn] = "closed"
                      THEN "failed" ELSE "done"]
  /\ UNCHANGED <<connection, sessions, pool, poolCalls>>
  /\ UNCHANGED <<orchVars, writerVars, genVars, cpc, seqVars, cmpVars, facVars, inspVars, extVars>>

(* close() called: nothing to do without a session, else                  *)
(* await this.connection.close(), which a closed session rejects          *)
OracleClose ==
  /\ Len(calls) < MaxConnCalls
  /\ LET c == NewCall("close")
     IN IF connection = NoSession
        THEN /\ calls' = Append(calls, [c EXCEPT !.pc = "done"])
             /\ UNCHANGED sessions
        ELSE IF sessions[connection] = "open"
        THEN /\ calls' = Append(calls, [c EXCEPT !.pc = "closing", !.conn = connection])
             /\ sessions' = [sessions EXCEPT ![connection] = "closed"]
        ELSE /\ calls' = Append(calls, [c EXCEPT !.pc = "failed", !.conn = connection,
                                                 !.reclosed = TRUE])
             /\ UNCHANGED sessions
  /\ UNCHANGED <<connection, pool, poolCalls>>
  /\ UNCHANGED <<orchVars, writerVars, genVars, cpc, seqVars, cmpVars, facVars, inspVars, extVars>>

(* connection.close() resolved: this.connection = null *)
OracleClosed ==
  /\ \E i \in DOMAIN calls :
       /\ calls[i].pc = "closing"
       /\ connection' = NoSession
       /\ calls' = [calls EXCEPT ![i].pc = "done"]
  /\ UNCHANGED <<sessions, pool, poolCalls>>
  /\ UNCHANGED <<orchVars, writerVars, genVars, cpc, seqVars, cmpVars, facVars, inspVars, extVars>>

(* DbConnection.query: pool.query, which an ended pool rejects *)
PoolQuery ==
  /\ Len(poolCalls) < MaxPoolCalls
  /\ poolCalls' = Append(poolCalls, [method |-> "query", after |-> PoolCloseCompleted,
                                     result |-> IF pool.ending THEN "error" ELSE "ok"])
  /\ UNCHANGED <<connection, sessions, calls, pool>>
  /\ UNCHANGED <<orchVars, writerVars, genVars, cpc, seqVars, cmpVars, facVars, inspVars, extVars>>

(* DbConnection.close: await this.pool.end(); a pool that is ending rejects *)
(* a further end()                                                          *)
PoolClose ==
  /\ Len(poolCalls) < MaxPoolCalls
  /\ poolCalls' = Append(poolCalls, [method |-> "close", after |-> PoolCloseCompleted,
                                     result |-> IF pool.ending THEN "error" ELSE "ok"])
  /\ pool' = [ending |-> TRUE, ends |-> pool.ends + 1]
  /\ UNCHANGED <<connection, sessions, calls>>
  /\ UNCHANGED <<orchVars, writerVars, genVars, cpc, seqVars, cmpVars, facVars, inspVars, extVars>>

InitConnections ==
  /\ IdleOrch /\ InitWriter /\ InitGen /\ InitSeq /\ InitCmp /\ InitFac /\ InitConn /\ InitInsp /\ InitExt
  /\ cpc = "off"

NextConnections ==
  \/ OracleCall \/ OracleConnected \/ OracleConnectFailed \/ OracleExecuted
  \/ OracleClose \/ OracleClosed
  \/ PoolQuery \/ PoolClose

SpecConnections == InitConnections /\ [][NextConnections]_vars

(* a close() of the OracleConnection that started after a completed one *)
(* neither fails nor closes a session again                             *)
OracleCloseIdempotent ==
  \A i \in DOMAIN calls :
    (calls[i].method = "close" /\ calls[i].after) =>
      (calls[i].pc # "failed" /\ ~calls[i].reclosed)

(* the same for the DbConnection: no error, and pool.end() at most once *)
PoolCloseIdempotent ==
  /\ \A i \in DOMAIN poolCalls :
       (poolCalls[i].method = "close" /\ poolCalls[i].after) => poolCalls[i].result = "ok"
  /\ pool.ends <= 1

(* C21: close() is idempotent for every connection: a close() started     *)
(* after one close() has completed completes without error and closes     *)
(* nothing again; the pool is ended at most once, a session closed at     *)
(* most once.                                                             *)
C21_CloseIdempotent ==
  /\ OracleCloseIdempotent
  /\ PoolCloseIdempotent

OpenSessions == {s \in DOMAIN sessions : sessions[s] = "open"}

(* C22: an OracleConnection holds at most one open session at any time,   *)
(* for any interleaving of query(), getConnection() and close(): no       *)
(* session is opened and then dropped without being closed.               *)
C22_OneSession ==
  /\ Cardinality(OpenSessions) <= 1
  /\ \A s \in OpenSessions : connection = s

----------------------------------------------------------------------------
(* Inspectors: getTableMetadata                                            *)

(* the catalog queries getTableMetadata starts inside Promise.all([..]):   *)
(* OracleInspector has no getSequences                                     *)
MetadataQueries(e) ==
  IF e = "postgres" THEN {"columns", "constraints", "indexes", "sequences"}
  ELSE {"columns", "constraints", "indexes"}

(* rows each of them will deliver for a table of the given structure *)
QueryRows(e, shape, seqs, q) ==
  CASE q = "columns" -> GetColumns(e, shape.columns)
    [] q = "constraints" -> shape.constraints
    [] q = "indexes" -> shape.indexes
    [] q = "sequences" -> seqs

(* Promise.all: rejected as soon as one promise rejects, fulfilled once    *)
(* every promise is fulfilled                                              *)
PromiseAll_AllSettled(qs) ==
  IF \E q \in DOMAIN qs : qs[q].state = "pending" THEN "pending" ELSE "resolved"
PromiseAll(qs) ==
  IF \E q \in DOMAIN qs : qs[q].state = "failed" THEN "rejected"
  ELSE IF \A q \in DOMAIN qs : qs[q].state = "done" THEN "resolved"
  ELSE "pending"

(* what a settled query hands to the destructuring assignment *)
Delivers(qs, q) == IF qs[q].state = "done" THEN qs[q].rows ELSE <<>>

(* return { name: tableName, schema, columns, constraints, indexes, sequences } *)
AssembleMetadata(e, args, qs) ==
  [name |-> args.tableName,
   schema |-> IF e = "postgres" \/ Truthy(args.schema) THEN args.schema ELSE "USER",
   columns |-> Delivers(qs, "columns"),
   constraints |-> Delivers(qs, "constraints"),
   indexes |-> Delivers(qs, "indexes"),
   sequences |-> IF e = "postgres" THEN Delivers(qs, "sequences") ELSE <<>>]

(* the await of getTableMetadata after one of its queries settled *)
MetadataSettle(qs) ==
  /\ mdQueries' = qs
  /\ mdPromise' = PromiseAll(qs)
  /\ mdResult' = IF PromiseAll(qs) = "resolved" THEN <<AssembleMetadata(engine, mdArgs, qs)>>
                 ELSE <<>>
  /\ UNCHANGED <<catalog, tableFilter, listed, conRows, conResult, mdArgs>>
  /\ UNCHANGED <<orchVars, writerVars, genVars, cpc, seqVars, cmpVars, facVars, connVars, extVars>>

(* getTableMetadata(schema, tableName) called: every query is started *)
MetadataCall ==
  /\ mdPromise = "none"
  /\ \E s \in (IF engine = "postgres" THEN {"public", "app"} ELSE {"", "APP"}),
        k \in 1..Len(TableShapes(engine)),
        seqs \in {<<>>, <<SeqRow("s1", "1", "57")>>} :
       /\ mdArgs' = [schema |-> s, tableName |-> "t"]
       /\ mdQueries' = [q \in MetadataQueries(engine) |->
                          [state |-> "pending", rows |-> QueryRows(engine, TableShapes(engine)[k], seqs, q)]]
  /\ mdPromise' = "pending"
  /\ UNCHANGED <<catalog, tableFilter, listed, conRows, conResult, mdResult>>
  /\ UNCHANGED <<orchVars, writerVars, genVars, cpc, seqVars, cmpVars, facVars, connVars, extVars>>

(* one catalog query resolved with its rows *)
MetadataQueryDone ==
  \E q \in DOMAIN mdQueries :
    /\ mdQueries[q].state = "pending"
    /\ MetadataSettle([mdQueries EXCEPT ![q].state = "done"])

(* one catalog query rejected *)
MetadataQueryFailed ==
  \E q \in DOMAIN mdQueries :
    /\ mdQueries[q].state = "pending"
    /\ MetadataSettle([mdQueries EXCEPT ![q].state = "failed"])

InitMetadata ==
  /\ IdleOrch /\ InitWriter /\ InitGen /\ InitSeq /\ InitCmp /\ InitFac /\ InitConn /\ InitInsp /\ InitExt
  /\ cpc = "off"

NextMetadata == MetadataCall \/ MetadataQueryDone \/ MetadataQueryFailed

SpecMetadata == InitMetadata /\ [][NextMetadata]_vars

(* C23: getTableMetadata returns a TableMetadata only after all of its     *)
(* concurrently issued catalog queries have completed, in any completion   *)
(* order, and the metadata holds what each of them delivered; if any one   *)
(* of them fails, getTableMetadata fails and no metadata, partial or not,  *)
(* is returned.                                                            *)
C23_AllOrNothing ==
  /\ mdResult # <<>> =>
       /\ mdPromise = "resolved"
       /\ \A q \in DOMAIN mdQueries : mdQueries[q].state = "done"
       /\ mdResult[1].columns = mdQueries["columns"].rows
       /\ mdResult[1].constraints = mdQueries["constraints"].rows
       /\ mdResult[1].indexes = mdQueries["indexes"].rows
       /\ "sequences" \in DOMAIN mdQueries => mdResult[1].sequences = mdQueries["sequences"].rows
  /\ mdPromise = "resolved" => mdResult # <<>>
  /\ (\E q \in DOMAIN mdQueries : mdQueries[q].state = "failed") =>
       (mdPromise = "rejected" /\ mdResult = <<>>)

(* the sequences query finished first and the columns query last *)
C23_Witness ==
  /\ engine = "postgres"
  /\ mdPromise = "resolved"
  /\ Len(mdResult[1].columns) = 3
  /\ Len(mdResult[1].sequences) = 1
  /\ mdResult[1].schema = "app"

(* one query failed while two others were still running: the call has     *)
(* failed already                                                          *)
C23_WitnessFailure ==
  /\ mdPromise = "rejected"
  /\ Cardinality({q \in DOMAIN mdQueries : mdQueries[q].state = "pending"}) = 2

----------------------------------------------------------------------------
(* Inspectors: listTables                                                  *)

MaxCatalog == 2
MaxFilter  == 4

(* tables and views of the schema, in the order the server returns them;  *)
(* a name occurs once                                                      *)
CatalogNames == {ToString(k) : k \in 1..MaxCatalog}

Catalogs ==
  {c \in UNION {[1..n -> [table_name : CatalogNames, table_type : {"BASE TABLE", "VIEW"}]] :
                  n \in 0..MaxCatalog} :
     \A i, j \in 1..Len(c) : i # j => c[i].table_name # c[j].table_name}

(* config.tables: any names, repeated or unknown ones included *)
Filters == UNION {[1..n -> CatalogNames \cup {"x"}] : n \in 0..MaxFilter}

(* the SELECT of listTables: base tables of the schema (user_tables for    *)
(* Oracle); with a non-empty targetTables also                             *)
(* table_name = ANY($2) / table_name IN (:1, .., :n)                       *)
ListTablesRows_FilterOrder(cat, filter) ==
  IF filter = <<>>
  THEN SelectSeq(cat, LAMBDA r : r.table_type = "BASE TABLE")
  ELSE LET hit(k) == SelectSeq(cat, LAMBDA r : r.table_type = "BASE TABLE" /\ r.table_name = filter[k])
       IN Flatten([k \in 1..Len(filter) |-> hit(k)])
ListTablesRows(cat, filter) ==
  SelectSeq(cat, LAMBDA r : /\ r.table_type = "BASE TABLE"
                            /\ filter # <<>> => \E k \in 1..Len(filter) : filter[k] = r.table_name)

(* listTables(schema, targetTables): rows.map(r => r.table_name) *)
InspectorCallListTables ==
  /\ listed = <<>>
  /\ listed' = <<[k \in 1..Len(ListTablesRows(catalog, tableFilter)) |->
                    ListTablesRows(catalog, tableFilter)[k].table_name]>>
  /\ UNCHANGED <<catalog, tableFilter, conRows, conResult, mdArgs, mdQueries, mdPromise, mdResult>>
  /\ UNCHANGED <<orchVars, writerVars, genVars, cpc, seqVars, cmpVars, facVars, connVars, extVars>>

InitListTables ==
  /\ IdleOrch /\ InitWriter /\ InitGen /\ InitSeq /\ InitCmp /\ InitFac /\ InitConn /\ InitExt
  /\ cpc = "off"
  /\ catalog \in Catalogs
  /\ tableFilter \in Filters
  /\ listed = <<>>
  /\ conRows = <<>>
  /\ conResult = <<>>
  /\ mdArgs = <<>>
  /\ mdQueries = <<>>
  /\ mdPromise = "none"
  /\ mdResult = <<>>

NextListTables == InspectorCallListTables

SpecListTables == InitListTables /\ [][NextListTables]_vars

(* position of a table in the catalog *)
CatalogPosition(name) == CHOOSE k \in 1..Len(catalog) : catalog[k].table_name = name

(* C24: with a non-empty filter listTables returns exactly the base tables *)
(* of the catalog whose name is in the filter, each once, in catalog       *)
(* order: order and duplicates of the filter do not matter, and a filter   *)
(* name that is no catalog table is absent.                                *)
C24_FilteredInCatalogOrder ==
  (listed # <<>> /\ tableFilter # <<>>) =>
    LET names == listed[1] IN
    /\ Elems(names) = {r.table_name : r \in {c \in Elems(catalog) : c.table_type = "BASE TABLE"}}
                        \cap Elems(tableFilter)
    /\ \A i, j \in 1..Len(names) : i < j => CatalogPosition(names[i]) < CatalogPosition(names[j])

C24_Witness ==
  /\ tableFilter = <<"1", "x", "2", "1">>
  /\ Len(catalog) = 2
  /\ catalog[1].table_name = "2"
  /\ listed = << <<"2", "1">> >>

----------------------------------------------------------------------------
(* Inspectors: getConstraints                                              *)

MaxConRows == 3

(* the value of a property the object does not have *)
Undefined == "<undefined>"

(* row.key: undefined unless the driver delivered that key.  oracledb      *)
(* names the keys of a row after the select list: an unquoted column or    *)
(* alias is upper case (rows.map(r => r.TABLE_NAME), r.NAME), a quoted     *)
(* alias keeps its case (row.name, row.type)                               *)
Prop(row, key) == IF key \in DOMAIN row THEN row[key] ELSE Undefined

(* rows of the flattened (constraint, column) join, as the driver hands    *)
(* them to getConstraints                                                  *)
ConstraintRows(e) ==
  IF e = "postgres"
  THEN {[name |-> n, type |-> IF n = "c1" THEN "FOREIGN KEY" ELSE "PRIMARY KEY", column_name |-> c,
         foreign_table |-> IF f = Null THEN Null ELSE "parent", foreign_column |-> f] :
          n \in {"c1", "c2"}, c \in {"a", "b"}, f \in {Null, "x", "y"}}
  ELSE {[name |-> n, type |-> IF n = "c1" THEN "R" ELSE "P", COLUMN_NAME |-> c] :
          n \in {"c1", "c2"}, c \in {"a", "b"}}

(* constraintsMap.set(row.name, {..}) for a name seen for the first time *)
NewConstraint(e, row) ==
  IF e = "postgres"
  THEN [name |-> row.name, type |-> row.type, columns |-> <<>>,
        foreignTable |-> IF Truthy(row.foreign_table) THEN row.foreign_table ELSE Null,
        foreignColumns |-> <<>>]
  ELSE [name |-> row.name,
        type |-> CASE row.type = "P" -> "PRIMARY KEY"
                   [] row.type = "R" -> "FOREIGN KEY"
                   [] row.type = "U" -> "UNIQUE"
                   [] OTHER -> "CHECK",
        columns |-> <<>>, foreignTable |-> Null, foreignColumns |-> <<>>]

(* if (!list.includes(v)) list.push(v) *)
PushNew(list, v) == IF \E k \in 1..Len(list) : list[k] = v THEN list ELSE Append(list, v)

(* the body of for (const row of rows) *)
AddRow(e, acc, row) ==
  LET acc1  == IF \E k \in 1..Len(acc) : acc[k].name = row.name
               THEN acc ELSE Append(acc, NewConstraint(e, row))
      i     == CHOOSE k \in 1..Len(acc1) : acc1[k].name = row.name
      fcol  == Prop(row, "foreign_column")
  IN [acc1 EXCEPT
        ![i].columns = PushNew(@, Prop(row, "column_name")),
        ![i].foreignColumns = IF e = "postgres" /\ fcol # Undefined /\ Truthy(fcol)
                              THEN PushNew(@, fcol) ELSE @]

RECURSIVE AggregateConstraints(_, _, _)
(* Array.from(constraintsMap.values()): a Map keeps insertion order *)
AggregateConstraints(e, rows, acc) ==
  IF rows = <<>> THEN acc
  ELSE AggregateConstraints(e, Tail(rows), AddRow(e, acc, Head(rows)))

(* getConstraints(schema, tableName) *)
InspectorGetConstraints ==
  /\ conResult = <<>>
  /\ conResult' = <<AggregateConstraints(engine, conRows, <<>>)>>
  /\ UNCHANGED <<catalog, tableFilter, listed, conRows, mdArgs, mdQueries, mdPromise, mdResult>>
  /\ UNCHANGED <<orchVars, writerVars, genVars, cpc, seqVars, cmpVars, facVars, connVars, extVars>>

InitConstraints ==
  /\ IdleOrch /\ InitWriter /\ InitGen /\ InitSeq /\ InitCmp /\ InitFac /\ InitConn /\ InitExt
  /\ cpc = "off"
  /\ catalog = <<>>
  /\ tableFilter = <<>>
  /\ listed = <<>>
  /\ conRows \in UNION {[1..n -> ConstraintRows(engine)] : n \in 0..MaxConRows}
  /\ conResult = <<>>
  /\ mdArgs = <<>>
  /\ mdQueries = <<>>
  /\ mdPromise = "none"
  /\ mdResult = <<>>

NextConstraints == InspectorGetConstraints

SpecConstraints == InitConstraints /\ [][NextConstraints]_vars

(* the elements of s without repetitions, in the order of their first      *)
(* occurrence                                                              *)
FirstSeen(s) ==
  LET first == {k \in 1..Len(s) : \A j \in 1..(k - 1) : s[j] # s[k]}
      nth(n) == CHOOSE k \in first : Cardinality({j \in first : j <= k}) = n
  IN [n \in 1..Cardinality(first) |-> s[nth(n)]]

(* what the catalog rows say: the column of a row and its referenced column *)
RowColumn(row) == IF engine = "postgres" THEN row.column_name ELSE row.COLUMN_NAME
RowsNamed(name) == SelectSeq(conRows, LAMBDA r : r.name = name)
ColumnsSeen(name) == [k \in 1..Len(RowsNamed(name)) |-> RowColumn(RowsNamed(name)[k])]
ReferencedSeen(name) ==
  LET rs == SelectSeq(RowsNamed(name),
                      LAMBDA r : "foreign_column" \in DOMAIN r /\ r.foreign_column # Null)
  IN [k \in 1..Len(rs) |-> rs[k].foreign_column]

(* C25: for any sequence of flattened (constraint, column, referenced      *)
(* column) rows getConstraints returns one TableConstraint per distinct    *)
(* constraint name, in order of first appearance; its columns and its      *)
(* referenced columns hold every distinct value seen for that name once,   *)
(* in first-seen order, never sorted.                                      *)
C25_OnePerName ==
  conResult # <<>> =>
    LET cs == conResult[1] IN
    /\ [k \in 1..Len(cs) |-> cs[k].name] = FirstSeen([k \in 1..Len(conRows) |-> conRows[k].name])
    /\ \A k \in 1..Len(cs) :
         /\ cs[k].columns = FirstSeen(ColumnsSeen(cs[k].name))
         /\ cs[k].foreignColumns = FirstSeen(ReferencedSeen(cs[k].name))

(* the same statement for the Postgres inspector alone *)
PostgresOnePerName == engine = "postgres" => C25_OnePerName

(* a composite foreign key whose rows arrive in an order that is not the   *)
(* alphabetical one                                                        *)
PostgresCompositeKey ==
  /\ engine = "postgres"
  /\ Len(conRows) = 3
  /\ conResult # <<>>
  /\ Len(conResult[1]) = 1
  /\ conResult[1][1].columns = <<"b", "a">>
  /\ conResult[1][1].foreignColumns = <<"y", "x">>

----------------------------------------------------------------------------
(* PostgresExtractor.formatValue and formatInsert.  Text is a sequence of  *)
(* characters here, so that quoting and substring tests are computed.      *)

UpperCaseLetters == <<"A", "B", "C", "D", "E", "F", "G", "H", "I", "J", "K", "L", "M", "N", "O", "P", "Q", "R", "S", "T", "U", "V", "W", "X", "Y", "Z">>
LowerCaseLetters == <<"a", "b", "c", "d", "e", "f", "g", "h", "i", "j", "k", "l", "m", "n", "o", "p", "q", "r", "s", "t", "u", "v", "w", "x", "y", "z">>

(* String.prototype.toLowerCase *)
ToLowerCase(s) ==
  [k \in 1..Len(s) |->
     IF \E n \in 1..26 : UpperCaseLetters[n] = s[k]
     THEN LowerCaseLetters[CHOOSE n \in 1..26 : UpperCaseLetters[n] = s[k]]
     ELSE s[k]]

(* String.prototype.includes *)
IncludesText(s, part) ==
  \E i \in 0..(Len(s) - Len(part)) : SubSeq(s, i + 1, i + Len(part)) = part

(* String.prototype.replace(/'/g, "''") *)
ReplaceQuotes(s) == Flatten([k \in 1..Len(s) |-> IF s[k] = "'" THEN <<"'", "'">> ELSE <<s[k]>>])

(* data_type names of information_schema.columns *)
TypeNames ==
  { <<"i", "n", "t", "e", "g", "e", "r">>,
    <<"n", "u", "m", "e", "r", "i", "c">>,
    <<"d", "o", "u", "b", "l", "e", " ", "p", "r", "e", "c", "i", "s", "i", "o", "n">>,
    <<"r", "e", "a", "l">>,
    <<"b", "o", "o", "l", "e", "a", "n">>,
    <<"t", "e", "x", "t">>,
    <<"c", "h", "a", "r", "a", "c", "t", "e", "r", " ", "v", "a", "r", "y", "i", "n", "g">>,
    <<"i", "n", "t", "e", "r", "v", "a", "l">>,
    <<"p", "o", "i", "n", "t">>,
    <<"j", "s", "o", "n">>,
    <<"j", "s", "o", "n", "b">>,
    <<"b", "y", "t", "e", "a">>,
    <<"A", "R", "R", "A", "Y">> }

(* JavaScript values a row can hold: kind, val.toString(), JSON.stringify(val), *)
(* the hex digits of a Buffer, the elements of an array                        *)
Value(kind, text, json, hex, items) ==
  [kind |-> kind, text |-> text, json |-> json, hex |-> hex, items |-> items]

NullValue == Value("null", <<>>, <<"n", "u", "l", "l">>, <<>>, <<>>)
StringValue(s) == Value("string", s, <<"\"">> \o s \o <<"\"">>, <<>>, <<>>)
NumberValue(s) == Value("number", s, s, <<>>, <<>>)

ScalarValues ==
  { NullValue,
    Value("boolean", <<"t", "r", "u", "e">>, <<"t", "r", "u", "e">>, <<>>, <<>>),
    Value("boolean", <<"f", "a", "l", "s", "e">>, <<"f", "a", "l", "s", "e">>, <<>>, <<>>),
    NumberValue(<<"4", "2">>), NumberValue(<<"0">>),
    StringValue(<<>>), StringValue(<<"a", "b">>), StringValue(<<"i", "t", "'", "s">>), StringValue(<<"1", " ", "d", "a", "y">>),
    Value("object", <<"[", "o", "b", "j", "e", "c", "t", " ", "O", "b", "j", "e", "c", "t", "]">>, <<"{", "\"", "k", "\"", ":", "\"", "i", "t", "'", "s", "\"", "}">>, <<>>, <<>>),
    Value("buffer", <<"a", "b">>, <<>>, <<"6", "1", "6", "2">>, <<>>) }

Values ==
  ScalarValues \cup
  { Value("array", <<"i", "t", "'", "s", ",">>, <<"[", "\"", "i", "t", "'", "s", "\"", ",", "n", "u", "l", "l", "]">>, <<>>, <<StringValue(<<"i", "t", "'", "s">>), NullValue>>),
    Value("array", <<>>, <<"[", "]">>, <<>>, <<>>) }

(* JavaScript truthiness *)
TruthyValue(val) ==
  CASE val.kind = "null" -> FALSE
    [] val.kind = "boolean" -> val.text = <<"t", "r", "u", "e">>
    [] val.kind = "number" -> val.text # <<"0">>
    [] val.kind = "string" -> val.text # <<>>
    [] OTHER -> TRUE

RECURSIVE FormatValue(_, _)
(* formatValue(val, type) *)
FormatValue(val, type) ==
  LET t == ToLowerCase(type)
      quoted(s) == <<"'">> \o ReplaceQuotes(s) \o <<"'">>
  IN IF val.kind = "null" THEN <<"N", "U", "L", "L">>
     ELSE IF t = <<"b", "o", "o", "l", "e", "a", "n">> THEN (IF TruthyValue(val) THEN <<"T", "R", "U", "E">> ELSE <<"F", "A", "L", "S", "E">>)
     ELSE IF \/ IncludesText(t, <<"i", "n", "t">>) \/ IncludesText(t, <<"d", "e", "c", "i", "m", "a", "l">>) \/ IncludesText(t, <<"n", "u", "m", "e", "r", "i", "c">>)
             \/ IncludesText(t, <<"r", "e", "a", "l">>) \/ IncludesText(t, <<"d", "o", "u", "b", "l", "e">>)
          THEN val.text
     ELSE IF IncludesText(t, <<"j", "s", "o", "n">>) THEN quoted(val.json) \o <<":", ":">> \o t
     ELSE IF t = <<"b", "y", "t", "e", "a">>
          THEN (IF val.kind = "buffer" THEN <<"'", "\\", "x">> \o val.hex \o <<"'">>
                ELSE quoted(val.text))
     ELSE IF val.kind = "array"
          THEN <<"A", "R", "R", "A", "Y", "[">>
               \o Flatten([k \in 1..Len(val.items) |->
                             (IF k > 1 THEN <<",">> ELSE <<>>) \o FormatValue(val.items[k], <<"t", "e", "x", "t">>)])
               \o <<"]">>
     ELSE quoted(val.text)

(* formatValue(val, type) called *)
CallFormatValue ==
  /\ fmtOut = <<>>
  /\ fmtOut' = <<FormatValue(fmtVal, fmtType)>>
  /\ UNCHANGED <<fmtVal, fmtType, exMeta, exRow, createSql, insertSql>>
  /\ UNCHANGED <<orchVars, writerVars, genVars, cpc, seqVars, cmpVars, facVars, connVars, inspVars>>

InitFormatValue ==
  /\ IdleOrch /\ InitWriter /\ InitGen /\ InitSeq /\ InitCmp /\ InitFac /\ InitConn /\ InitInsp
  /\ cpc = "off"
  /\ fmtVal \in Values
  /\ fmtType \in TypeNames
  /\ fmtOut = <<>>
  /\ exMeta = <<>>
  /\ exRow = <<>>
  /\ createSql = <<>>
  /\ insertSql = <<>>

NextFormatValue == CallFormatValue

SpecFormatValue == InitFormatValue /\ [][NextFormatValue]_vars

(* the numeric, JSON-family and binary column types among TypeNames *)
NumericTypes == { <<"i", "n", "t", "e", "g", "e", "r">>, <<"n", "u", "m", "e", "r", "i", "c">>, <<"d", "o", "u", "b", "l", "e", " ", "p", "r", "e", "c", "i", "s", "i", "o", "n">>, <<"r", "e", "a", "l">> }
JsonTypes == { <<"j", "s", "o", "n">>, <<"j", "s", "o", "n", "b">> }

(* '...' around the text, each embedded single quote doubled *)
QuotedLiteral(s) ==
  LET quotes == {k \in 1..Len(s) : s[k] = "'"}
      before(n) == Cardinality({k \in quotes : k < n})
      body == [n \in 1..(Len(s) + Cardinality(quotes)) |->
                 IF \E k \in 1..Len(s) : n \in {k + before(k), k + before(k) + 1} /\ k \in quotes
                 THEN "'"
                 ELSE s[CHOOSE k \in 1..Len(s) : n = k + before(k)]]
  IN <<"'">> \o body \o <<"'">>

(* C26: formatValue is type-aware for every column type name: a null value *)
(* gives NULL; only values of numeric column types are emitted as unquoted *)
(* text; every non-null value whose column type is not boolean, numeric,   *)
(* binary or JSON-family and that is not an array is emitted as            *)
(* single-quoted text with each embedded single quote doubled.             *)
C26_TypeAware ==
  fmtOut # <<>> =>
    /\ fmtVal.kind = "null" => fmtOut[1] = <<"N", "U", "L", "L">>
    /\ (fmtVal.kind # "null" /\ fmtOut[1] = fmtVal.text) => fmtType \in NumericTypes
    /\ ( /\ fmtVal.kind \notin {"null", "array"}
         /\ fmtType \notin NumericTypes \cup JsonTypes \cup {<<"b", "o", "o", "l", "e", "a", "n">>, <<"b", "y", "t", "e", "a">>} )
       => fmtOut[1] = QuotedLiteral(fmtVal.text)

(* the same statement without the column types whose name merely contains *)
(* 'int'                                                                   *)
FormatValueBesidesInt ==
  fmtType \notin {<<"i", "n", "t", "e", "r", "v", "a", "l">>, <<"p", "o", "i", "n", "t">>} => C26_TypeAware

(* a text value with an embedded quote *)
QuotedTextFormatted ==
  /\ fmtType = <<"t", "e", "x", "t">>
  /\ fmtVal = StringValue(<<"i", "t", "'", "s">>)
  /\ fmtOut = << <<"'", "i", "t", "'", "'", "s", "'">> >>

----------------------------------------------------------------------------
(* Backup run: metadata capture and its use by the later phases            *)

(* the getTableMetadata calls made so far, in order *)
MetadataCalls == SelectSeq(queries, LAMBDA q : q.query = "getTableMetadata")

(* the writes of the loops over tablesMetadata *)
PhaseWrites == SelectSeq(Written, LAMBDA c : PhaseRank(c.phase) > 0)

(* what a phase writes for a captured TableMetadata *)
TextOf(phase, meta) ==
  CASE phase = "seq" -> GenerateSequences(engine, meta)
    [] phase = "table" -> GenerateTableCreate(engine, meta)
    [] phase = "index" -> GenerateIndexes(engine, meta)
    [] phase = "constraint" -> GenerateConstraints(engine, meta)

(* C27: in one backup run getTableMetadata is called exactly once per      *)
(* listed table, in the listed order; all of these calls have completed    *)
(* before the first write of a later phase; every later phase visits the   *)
(* tables in the order in which their metadata was captured and writes     *)
(* what that captured metadata gives, and no phase after the inspection    *)
(* queries the catalog or changes the captured metadata.                   *)
C27_CapturedOnce ==
  /\ [](/\ Len(MetadataCalls) <= Len(tableNames)
        /\ \A k \in 1..Len(MetadataCalls) : MetadataCalls[k].table = tableNames[k]
        /\ Len(tablesMetadata) <= Len(MetadataCalls)
        /\ \A k \in 1..Len(tablesMetadata) : tablesMetadata[k].name = tableNames[k]
        /\ (PhaseWrites # <<>> \/ pc = "done") =>
             (Len(MetadataCalls) = Len(tableNames) /\ Len(tablesMetadata) = Len(tableNames))
        /\ \A k \in 1..Len(PhaseWrites) :
             LET c == PhaseWrites[k] IN
             /\ c.table \in 1..Len(tablesMetadata)
             /\ IF c.phase = "data" THEN c.text[1].table = tablesMetadata[c.table].name
                ELSE c.text = TextOf(c.phase, tablesMetadata[c.table])
        /\ \A i, j \in 1..Len(PhaseWrites) :
             (i < j /\ PhaseWrites[i].phase = PhaseWrites[j].phase)
               => PhaseWrites[i].table <= PhaseWrites[j].table)
  /\ [][pc \notin {"list", "inspect"} => UNCHANGED <<queries, tablesMetadata>>]_vars

C27_Witness ==
  /\ pc = "done"
  /\ Len(tableNames) = 2
  /\ Len(MetadataCalls) = 2
  /\ tablesMetadata[1].constraints = <<>>
  /\ Len(tablesMetadata[2].constraints) = 4
  /\ CountPhase(out, "constraint") = 1
  /\ CountPhase(out, "table") = 2

----------------------------------------------------------------------------
(* Backup file: where the captured constraints are emitted                 *)

(* positions <<chunk, statement>> of the ADD CONSTRAINT statements written *)
ConstraintEmissions ==
  {p \in UNION {{<<k, n>> : n \in 1..Len(Written[k].text)} : k \in 1..Len(Written)} :
     Written[p[1]].text[p[2]].kind = "ADD CONSTRAINT"}

EmissionsOf(table, name) ==
  {p \in ConstraintEmissions :
     Written[p[1]].text[p[2]].table = table /\ Written[p[1]].text[p[2]].name = name}

(* the column definitions of the CREATE TABLE statements written *)
CreatedColumns ==
  UNION {Elems(Written[k].text[1].columns) :
           k \in {j \in 1..Len(Written) : Written[j].phase = "table"}}

(* C28: across one backup file every captured PRIMARY KEY, FOREIGN KEY or  *)
(* UNIQUE constraint is emitted exactly once: a PRIMARY KEY only as an     *)
(* ALTER TABLE trailing its table's CREATE TABLE in the table phase, a     *)
(* FOREIGN KEY or UNIQUE only in the constraint phase after all data; none *)
(* is emitted in both phases, and a CREATE TABLE column list holds column  *)
(* definitions (name, type, NOT NULL, DEFAULT) only.                       *)
C28_ConstraintsOnce ==
  /\ \A p \in ConstraintEmissions :
       LET chunk == Written[p[1]]
           st    == chunk.text[p[2]]
       IN /\ st.type \in {"PRIMARY KEY", "FOREIGN KEY", "UNIQUE"}
          /\ st.type = "PRIMARY KEY" =>
               /\ chunk.phase = "table"
               /\ p[2] > 1
               /\ chunk.text[1].kind = "CREATE TABLE"
               /\ chunk.text[1].table = st.table
          /\ st.type # "PRIMARY KEY" =>
               /\ chunk.phase = "constraint"
               /\ \A j \in 1..Len(Written) : Written[j].phase = "data" => j < p[1]
               /\ \A m \in 1..Len(tablesMetadata) :
                    \E j \in 1..(p[1] - 1) :
                      /\ Written[j].phase = "data"
                      /\ Written[j].table = m
                      /\ Written[j].text[1].kind = "NEWLINE"
          /\ Cardinality(EmissionsOf(st.table, st.name)) = 1
  /\ \A c \in CreatedColumns : DOMAIN c = {"ident", "type", "notNull", "default"}
  /\ pc = "done" =>
       \A m \in 1..Len(tablesMetadata) : \A k \in 1..Len(tablesMetadata[m].constraints) :
         LET con == tablesMetadata[m].constraints[k] IN
         con.type \in {"PRIMARY KEY", "FOREIGN KEY", "UNIQUE"} =>
           Cardinality(EmissionsOf(tablesMetadata[m].name, con.name)) = 1

C28_Witness ==
  /\ pc = "done"
  /\ Len(tablesMetadata) = 2
  /\ Cardinality(ConstraintEmissions) = 6
  /\ Cardinality(EmissionsOf(2, "pk")) = 1
  /\ Cardinality(EmissionsOf(2, "fk")) = 1
  /\ Cardinality(CreatedColumns) >= 2

----------------------------------------------------------------------------
(* Backup run: what a failed run leaves open                               *)

(* failures of a phase of run(), after open() and before the closing calls *)
PhaseFailures == {"write", "listTables", "getTableMetadata", "fetch"}

ClosingWritten == \E k \in 1..Len(Written) : Written[k].phase \in {"restore", "footer"}

(* every loop of run() went through every table *)
AllPhasesDone ==
  /\ Len(tablesMetadata) = Len(tableNames)
  /\ CountPhase(Written, "table") = Len(tableNames)
  /\ \A m \in 1..Len(tablesMetadata) :
       \E k \in 1..Len(Written) :
         Written[k].phase = "data" /\ Written[k].table = m /\ Written[k].text[1].kind = "NEWLINE"

(* C29: when run() fails in a phase after the writer was opened, it        *)
(* rethrows the error without calling SQLWriter.close() or the             *)
(* connection's close(): no restore directive and no footer is written,    *)
(* the file stream is not ended and the connection stays open; writer      *)
(* close() and then connection close() are called only when every phase    *)
(* succeeded.                                                              *)
C29_FailureLeavesOpen ==
  /\ failedAt \in PhaseFailures =>
       /\ wstats.closes = 0
       /\ wstats.ends = 0
       /\ dbClosed = 0
       /\ ~ClosingWritten
       /\ streamState \notin {"ending", "finished"}
       /\ pc \in {"failed", "data_return"}
       /\ pc = "failed" => thrown = ErrorOf(failedAt)
  /\ wstats.closes > 0 =>
       /\ wstats.closes = 1
       /\ AllPhasesDone
       /\ failedAt \notin PhaseFailures
  /\ dbClosed > 0 =>
       /\ dbClosed = 1
       /\ wstats.closes = 1
       /\ streamState = "finished"
       /\ Written[Len(Written)].phase = "footer"

(* the third table write of a two-table backup was rejected *)
C29_Witness ==
  /\ pc = "failed"
  /\ failedAt = "write"
  /\ thrown = "write"
  /\ CountPhase(out, "table") = 2
  /\ CountPhase(out, "data") >= 1
  /\ writeStream = "stream"
  /\ wstats.closes = 0
  /\ dbClosed = 0

----------------------------------------------------------------------------
(* PostgresExtractor.formatInsert against generateTableCreate              *)

MaxInsertColumns == 2

(* the characters of a column's data_type *)
Chars(dataType) ==
  CASE dataType = "integer" -> <<"i", "n", "t", "e", "g", "e", "r">>
    [] dataType = "numeric" -> <<"n", "u", "m", "e", "r", "i", "c">>
    [] dataType = "character varying" ->
         <<"c", "h", "a", "r", "a", "c", "t", "e", "r", " ", "v", "a", "r", "y", "i", "n", "g">>
    [] OTHER -> <<"t", "e", "x", "t">>

ColumnPool == <<IdInt, NameVarchar50, NoteText, ExtraNumeric>>

(* column lists in ordinal order: distinct columns of the pool *)
ColumnLists ==
  { [k \in 1..n |-> ColumnPool[f[k]]] :
      n \in 1..MaxInsertColumns,
      f \in { g \in [1..MaxInsertColumns -> 1..Len(ColumnPool)] :
                \A i, j \in 1..MaxInsertColumns : i # j => g[i] # g[j] } }

ExtractorMetas ==
  { [name |-> t, schema |-> s, columns |-> cols, constraints |-> cons,
     indexes |-> <<>>, sequences |-> <<>>] :
      t \in {"users", "Order"}, s \in {"public", "App"}, cols \in ColumnLists,
      cons \in {<<>>, <<[name |-> "pk", type |-> "PRIMARY KEY"]>>} }

(* rows of the cursor, keyed by column name *)
ExtractorRows ==
  { [id |-> NumberValue(<<"4", "2">>), name |-> StringValue(<<"i", "t", "'", "s">>),
     note |-> NullValue, extra |-> NumberValue(<<"0">>)],
    [id |-> NumberValue(<<"0">>), name |-> StringValue(<<"a", "b">>),
     note |-> StringValue(<<>>), extra |-> NullValue] }

FormatInsert(meta, row) ==
  [kind |-> "INSERT",
   ident |-> <<meta.schema, ".", meta.name>>,
   columns |-> [k \in 1..Len(meta.columns) |-> <<"\"", meta.columns[k].name, "\"">>],
   values |-> [k \in 1..Len(meta.columns) |->
                 FormatValue(row[meta.columns[k].name], Chars(meta.columns[k].dataType))]]

(* generateTableCreate(meta) called *)
CallGenerateTableCreate ==
  /\ exMeta # <<>>
  /\ createSql = <<>>
  /\ createSql' = GenerateTableCreate("postgres", exMeta[1])
  /\ UNCHANGED <<fmtVal, fmtType, fmtOut, exMeta, exRow, insertSql>>
  /\ UNCHANGED <<orchVars, writerVars, genVars, cpc, seqVars, cmpVars, facVars, connVars, inspVars>>

(* formatInsert(meta, row) called for a row of the cursor *)
CallFormatInsert ==
  /\ exMeta # <<>>
  /\ insertSql = <<>>
  /\ insertSql' = <<FormatInsert(exMeta[1], exRow[1])>>
  /\ UNCHANGED <<fmtVal, fmtType, fmtOut, exMeta, exRow, createSql>>
  /\ UNCHANGED <<orchVars, writerVars, genVars, cpc, seqVars, cmpVars, facVars, connVars, inspVars>>

InitInsert ==
  /\ IdleOrch /\ InitWriter /\ InitGen /\ InitSeq /\ InitCmp /\ InitFac /\ InitConn /\ InitInsp
  /\ cpc = "off"
  /\ fmtVal = <<>>
  /\ fmtType = <<>>
  /\ fmtOut = <<>>
  /\ \E m \in ExtractorMetas : exMeta = <<m>>
  /\ \E r \in ExtractorRows : exRow = <<r>>
  /\ createSql = <<>>
  /\ insertSql = <<>>

NextInsert == CallGenerateTableCreate \/ CallFormatInsert

SpecInsert == InitInsert /\ [][NextInsert]_vars

BothEmitted == createSql # <<>> /\ insertSql # <<>>

(* C30: each INSERT names its table with the same identifier text, schema  *)
(* and table quoting included, as the CREATE TABLE emitted for that table, *)
(* and lists its columns in the order of that CREATE TABLE, the ordinal    *)
(* order of the captured metadata.                                         *)
C30_InsertMatchesCreate ==
  BothEmitted =>
    /\ insertSql[1].ident = createSql[1].ident
    /\ Len(insertSql[1].columns) = Len(createSql[1].columns)
    /\ \A k \in 1..Len(insertSql[1].columns) :
         /\ insertSql[1].columns[k] = createSql[1].columns[k].ident
         /\ insertSql[1].columns[k] = <<"\"", exMeta[1].columns[k].name, "\"">>

(* the column lists of the two statements agree, in ordinal order *)
InsertColumnsInOrder ==
  BothEmitted =>
    /\ createSql[1].kind = "CREATE TABLE"
    /\ Len(insertSql[1].columns) = Len(createSql[1].columns)
    /\ \A k \in 1..Len(insertSql[1].columns) :
         /\ insertSql[1].columns[k] = createSql[1].columns[k].ident
         /\ insertSql[1].columns[k] = <<"\"", exMeta[1].columns[k].name, "\"">>
         /\ insertSql[1].values[k]
              = FormatValue(exRow[1][exMeta[1].columns[k].name], Chars(exMeta[1].columns[k].dataType))

(* a mixed-case table of two columns, created and inserted into *)
InsertIntoMixedCase ==
  /\ BothEmitted
  /\ exMeta[1].name = "Order"
  /\ Len(exMeta[1].columns) = 2
  /\ insertSql[1].ident = <<"public", ".", "Order">>
  /\ createSql[1].ident = <<"\"", "public", "\"", ".", "\"", "Order", "\"">>

====
